---------------------------- MODULE Spec2Model ----------------------------
(***************************************************************************)
(* Trackserver2: the ciNet ingest pipeline (framing, staged parse,         *)
(* persistence, fan-out) and the WebSocket subscription hub.               *)
(*                                                                         *)
(* Bytes are integers 0..255; byte strings are sequences.  Python's        *)
(* 0-based half-open slices s[a:b] are written Slice(s, a, b).             *)
(***************************************************************************)
EXTENDS Integers, Sequences, FiniteSets, TLC

(***************************************************************************)
(* Byte-string helpers (struct.pack / struct.unpack, slicing).             *)
(***************************************************************************)
\* Optional[T]: None is the empty sequence, a value v is <<v>>.
Null == <<>>

Some(v) == <<v>>

At(s, i) == s[i + 1]

Slice(s, a, b) == SubSeq(s, a + 1, b)

Zeros(n) == [i \in 1..n |-> 0]

\* buf[off : off+len(b)] = b
Put(buf, off, b) ==
    SubSeq(buf, 1, off) \o b \o SubSeq(buf, off + Len(b) + 1, Len(buf))

U16BE(v) == <<(v \div 256) % 256, v % 256>>

\* TLC integers are 32-bit signed, so an unsigned 32-bit value (a device
\* key) is carried as its four big-endian bytes.
U32BE(v) == v

UnU32BE(b) == b

\* \div and % are floor division and modulus: two's complement for v < 0
I32BE(v) == <<(v \div 16777216) % 256, (v \div 65536) % 256,
              (v \div 256) % 256, v % 256>>

UnU16BE(b) == b[1] * 256 + b[2]

UnI32BE(b) ==
    (IF b[1] >= 128 THEN b[1] - 256 ELSE b[1]) * 16777216
        + b[2] * 65536 + b[3] * 256 + b[4]

UnI8(b) == IF b >= 128 THEN b - 256 ELSE b

RECURSIVE Xor(_, _)
Xor(a, b) ==
    IF a = 0 THEN b
    ELSE IF b = 0 THEN a
    ELSE ((a + b) % 2) + 2 * Xor(a \div 2, b \div 2)

\* bytes.rstrip(b'\x00')
RECURSIVE RStripNul(_)
RStripNul(s) ==
    IF s = <<>> THEN s
    ELSE IF s[Len(s)] = 0 THEN RStripNul(SubSeq(s, 1, Len(s) - 1))
    ELSE s

(***************************************************************************)
(* CRC-16 codec (protocol/crc.py is not part of the source tree; the       *)
(* specification fixes only "a single pure function over a byte range").   *)
(* Modelled as the table-driven CRC-16/CCITT, polynomial 0x1021.           *)
(***************************************************************************)
RECURSIVE CrcShift(_, _)
CrcShift(r, n) ==
    IF n = 0 THEN r
    ELSE CrcShift(IF r >= 32768 THEN Xor((r * 2) % 65536, 4129)
                  ELSE (r * 2) % 65536, n - 1)

\* The tables are tuples (entry for b at index b + 1), computed once.
CrcTable == SubSeq([i \in 1..256 |-> CrcShift((i - 1) * 256, 8)], 1, 256)

XorTable ==
    SubSeq([i \in 1..256 |->
               SubSeq([j \in 1..256 |-> Xor(i - 1, j - 1)], 1, 256)], 1, 256)

XorByte(a, b) == XorTable[a + 1][b + 1]

\* crc = ((crc << 8) & 0xFFFF) ^ table[(crc >> 8) ^ b]
CrcByte(crc, b) ==
    LET e == CrcTable[XorByte(crc \div 256, b) + 1]
    IN  XorByte(crc % 256, e \div 256) * 256 + (e % 256)

\* the CRC register after bytes data[first..last] (1-based, inclusive),
\* starting from crc; the range is halved to keep the evaluation shallow
RECURSIVE CrcFold(_, _, _, _)
CrcFold(data, first, last, crc) ==
    IF last < first THEN crc
    ELSE IF first = last THEN CrcByte(crc, data[first])
    ELSE LET mid  == (first + last) \div 2
             left == CrcFold(data, first, mid, crc)
         IN  \* the test evaluates left before the second half is entered
             IF left < 0 THEN left ELSE CrcFold(data, mid + 1, last, left)

\* CRC16.calculate(data, offset, length)
CRC16(data, offset, length) == CrcFold(data, offset + 1, offset + length, 65535)

(***************************************************************************)
(* Block cipher (protocol/blowfish.py is not part of the source tree).     *)
(* The key schedule derived from a passphrase is modelled by the           *)
(* passphrase bytes; a block is 8 bytes, ECB: every block is transformed   *)
(* alike, by a keyed substitution of each byte of the block.               *)
(***************************************************************************)
BLOCK_SIZE == 8

derive_key(passphrase) == passphrase

Blowfish(key) == [key |-> key]

KeyByte(cipher, i) ==
    LET k == cipher.key
        j == (i - 1) % BLOCK_SIZE
    IN  IF k = <<>> THEN 0 ELSE (k[(j % Len(k)) + 1] + 17 * j) % 256

encrypt_bytes(cipher, data) ==
    [i \in 1..Len(data) |-> (data[i] + KeyByte(cipher, i)) % 256]

decrypt_bytes(cipher, data) ==
    [i \in 1..Len(data) |-> (data[i] - KeyByte(cipher, i)) % 256]


(***************************************************************************)
(* Datong 5-byte timestamp codec.  A datetime is a record                  *)
(* [year, month, day, hour, minute, second].                               *)
(***************************************************************************)
DateTime(y, mo, d, h, mi, s) ==
    [year |-> y, month |-> mo, day |-> d, hour |-> h, minute |-> mi, second |-> s]

IsLeap(y) == (y % 4 = 0 /\ y % 100 # 0) \/ y % 400 = 0

DaysInMonth(y, m) ==
    IF m = 2 THEN (IF IsLeap(y) THEN 29 ELSE 28)
    ELSE IF m \in {4, 6, 9, 11} THEN 30 ELSE 31

\* datetime(...) raises ValueError unless every component is in range
ValidDateTime(y, mo, d, h, mi, s) ==
    /\ y \in 1..9999
    /\ mo \in 1..12
    /\ d \in 1..DaysInMonth(y, mo)
    /\ h \in 0..23
    /\ mi \in 0..59
    /\ s \in 0..59

\* Variants of the encoder: one that leaves the low bit of the month out,
\* one that leaves the low bit of the second out.
_encode_datong_timestamp_month3(dt) ==
    << ((dt.day % 32) * 8) + ((dt.month \div 2) % 8),
       (dt.year - 1980) % 128,
       ((dt.hour % 32) * 8) + ((dt.minute \div 8) % 8),
       ((dt.minute % 8) * 32) + ((dt.second \div 2) % 32),
       (dt.second % 2) * 128 >>

_encode_datong_timestamp_even(dt) ==
    << ((dt.day % 32) * 8) + ((dt.month \div 2) % 8),
       ((dt.year - 1980) % 128) + ((dt.month % 2) * 128),
       ((dt.hour % 32) * 8) + ((dt.minute \div 8) % 8),
       ((dt.minute % 8) * 32) + ((dt.second \div 2) % 32),
       0 >>

_encode_datong_timestamp(dt) ==
    << ((dt.day % 32) * 8) + ((dt.month \div 2) % 8),
       ((dt.year - 1980) % 128) + ((dt.month % 2) * 128),
       ((dt.hour % 32) * 8) + ((dt.minute \div 8) % 8),
       ((dt.minute % 8) * 32) + ((dt.second \div 2) % 32),
       (dt.second % 2) * 128 >>

\* A variant of the decoder that returns the fields as they are.
_decode_datong_timestamp_unchecked(ts) ==
    DateTime((ts[2] % 128) + 1980,
             ((ts[1] % 8) * 2) + ((ts[2] \div 128) % 2),
             (ts[1] \div 8) % 32,
             (ts[3] \div 8) % 32,
             ((ts[3] % 8) * 8) + ((ts[4] \div 32) % 8),
             ((ts[4] % 32) * 2) + ((ts[5] \div 128) % 2))

_decode_datong_timestamp(ts) ==
    LET day    == (ts[1] \div 8) % 32
        month  == ((ts[1] % 8) * 2) + ((ts[2] \div 128) % 2)
        year   == (ts[2] % 128) + 1980
        hour   == (ts[3] \div 8) % 32
        minute == ((ts[3] % 8) * 8) + ((ts[4] \div 32) % 8)
        second == ((ts[4] % 32) * 2) + ((ts[5] \div 128) % 2)
    IN  IF ValidDateTime(year, month, day, hour, minute, second)
        THEN DateTime(year, month, day, hour, minute, second)
        ELSE DateTime(1980, 1, 1, 0, 0, 0)

(***************************************************************************)
(* Reference encoder (tools/beacon_simulator.py).  sim is the simulator    *)
(* object: [device_key, serial_number, passphrase, latitude, longitude,    *)
(* sequence]; latitude and longitude are given as int(degrees * 60000),   *)
(* device_key as its four big-endian bytes.                                *)
(***************************************************************************)
MSG_LENGTH == 149

HEADER_LENGTH == 51

ENCRYPTED_LENGTH == 96

START_BYTE == 36

PACKET_TYPE == 85

build_message(sim, speed, battery, now) ==
    LET datong_ts == _encode_datong_timestamp(now)
        sequence  == (sim.sequence + 1) % 256
        b0  == Zeros(MSG_LENGTH)
        b1  == Put(b0, 0, <<START_BYTE, PACKET_TYPE>>)
        b2  == Put(b1, 2, U16BE(MSG_LENGTH))
        b3  == Put(b2, 4, <<sequence>>)
        b4  == Put(b3, 5, U32BE(sim.device_key))
        b5  == Put(b4, 9, <<68>>)
        b6  == Put(b5, 10, <<77, 105, 108, 108, 105, 116, 97, 103>>)
        b7  == Put(b6, 22, SubSeq(sim.serial_number, 1,
                                  IF Len(sim.serial_number) < 24
                                  THEN Len(sim.serial_number) ELSE 24))
        b8  == Put(b7, 46, datong_ts)
        b9  == Put(b8, 51, U16BE(ENCRYPTED_LENGTH))
        b10 == Put(b9, 55, <<2>>)
        b11 == Put(b10, 56, <<84, 101, 115, 116, 67, 108, 105, 101, 110, 116>>)
        b12 == Put(b11, 76, I32BE(sim.latitude))
        b13 == Put(b12, 80, I32BE(sim.longitude))
        b14 == Put(b13, 84, U16BE(65535))
        b15 == Put(b14, 86, U16BE(speed))
        b16 == Put(b15, 88, datong_ts)
        b17 == Put(b16, 93, U16BE(100))
        b18 == Put(b17, 95, <<1, IF speed > 0 THEN 1 ELSE 0, 255>>)
        b19 == Put(b18, 98, U16BE(46))
        b20 == Put(b19, 100, <<battery, 20, 8>>)
        b21 == Put(b20, 127, <<1, 0, 0>>)
        crc1 == CRC16(b21, 55, 92)
        b22 == Put(b21, 53, <<255 - (crc1 % 256), 255 - ((crc1 \div 256) % 256)>>)
        encrypted == encrypt_bytes(Blowfish(derive_key(sim.passphrase)),
                                   Slice(b22, 51, 147))
        b23 == Put(b22, 51, encrypted)
        crc2 == CRC16(b23, 0, 147)
    IN  Put(b23, 147, <<255 - (crc2 % 256), 255 - ((crc2 \div 256) % 256)>>)

(***************************************************************************)
(* CiNetMessageParser (protocol/message_parser.py).                        *)
(***************************************************************************)
\* A variant of the cache that holds the cipher of the latest passphrase
\* only.
get_cipher_latest_only(cache, passphrase) ==
    IF passphrase \notin DOMAIN cache
    THEN (passphrase :> Blowfish(derive_key(passphrase)))
    ELSE cache

\* self._cipher_cache is a dict: passphrase -> Blowfish
get_cipher(cache, passphrase) ==
    IF passphrase \notin DOMAIN cache
    THEN cache @@ (passphrase :> Blowfish(derive_key(passphrase)))
    ELSE cache

\* A variant of the header check that does not look at the packet type.
validate_header_start_only(data) ==
    IF Len(data) < MSG_LENGTH THEN FALSE
    ELSE IF At(data, 0) # START_BYTE THEN FALSE
    ELSE TRUE

validate_header(data) ==
    IF Len(data) < MSG_LENGTH THEN FALSE
    ELSE IF At(data, 0) # START_BYTE THEN FALSE
    ELSE IF At(data, 1) # PACKET_TYPE THEN FALSE
    ELSE TRUE

extract_device_key(data) == UnU32BE(Slice(data, 5, 9))

validate_crc(data) ==
    LET calc_crc   == CRC16(data, 0, 147)
        stored_crc == At(data, 148) * 256 + At(data, 147)
    IN  (65535 - calc_crc) = stored_crc

\* the payload once decrypted with the passphrase's cipher
Decrypted(data, passphrase) ==
    decrypt_bytes(get_cipher(<<>>, passphrase)[passphrase], Slice(data, 51, 147))

\* A variant of the payload CRC check that reads the stored value high byte
\* first.
PayloadCrcOkHighByteFirst(decrypted) ==
    (65535 - CRC16(decrypted, 4, 92)) = At(decrypted, 2) * 256 + At(decrypted, 3)

PayloadCrcOk(decrypted) ==
    (65535 - CRC16(decrypted, 4, 92)) = At(decrypted, 3) * 256 + At(decrypted, 2)

\* A variant of the accuracy buckets whose upper limits are exclusive.
GpsAccuracyBelow(gps_valid, hdop_raw) ==
    IF ~gps_valid THEN "No Fix"
    ELSE IF hdop_raw < 100 THEN "High"
    ELSE IF hdop_raw < 200 THEN "Medium"
    ELSE IF hdop_raw < 500 THEN "Low"
    ELSE "Poor"

GpsAccuracy(gps_valid, hdop_raw) ==
    IF ~gps_valid THEN "No Fix"
    ELSE IF hdop_raw <= 100 THEN "High"
    ELSE IF hdop_raw <= 200 THEN "Medium"
    ELSE IF hdop_raw <= 500 THEN "Low"
    ELSE "Poor"

MessageTypeStr(t) ==
    IF t = 0 THEN "Position"
    ELSE IF t = 1 THEN "Status"
    ELSE IF t = 2 THEN "GSM"
    ELSE IF t = 3 THEN "Diagnostic"
    ELSE "Position"

\* A variant of the heading's decoding without the value for "unknown".
HeadingOfAnyValue(heading_raw) == Some(heading_raw)

\* heading = heading_raw / 100.0 if heading_raw != 0xFFFF else None
HeadingOf(heading_raw) ==
    IF heading_raw # 65535 THEN Some(heading_raw) ELSE Null

\* The fields decoded from a payload that passed both CRC checks.  heading
\* and hdop are kept in hundredths (the code divides by 100.0).
Decode(data, decrypted) ==
    LET heading_raw == UnU16BE(Slice(decrypted, 33, 35))
        hdop_raw    == UnU16BE(Slice(decrypted, 42, 44))
        gps_valid   == At(decrypted, 44) = 1
    IN  [ device_key   |-> UnU32BE(Slice(data, 5, 9)),
          sequence     |-> At(data, 4),
          latitude     |-> UnI32BE(Slice(decrypted, 25, 29)),
          longitude    |-> UnI32BE(Slice(decrypted, 29, 33)),
          heading      |-> HeadingOf(heading_raw),
          speed        |-> UnU16BE(Slice(decrypted, 35, 37)),
          timestamp    |-> _decode_datong_timestamp(Slice(decrypted, 37, 42)),
          hdop         |-> hdop_raw,
          gps_valid    |-> gps_valid,
          motion       |-> At(decrypted, 45),
          battery      |-> At(decrypted, 49),
          temperature  |-> UnI8(At(decrypted, 50)),
          satellites   |-> At(decrypted, 51),
          gps_accuracy |-> GpsAccuracy(gps_valid, hdop_raw),
          message_type |-> MessageTypeStr(At(decrypted, 4)),
          packet_number |-> At(data, 4),
          raw_data     |-> data ]

\* A variant of parse that decodes the payload whatever its CRC.
parse_any_payload(cache, data, passphrase) ==
    IF ~validate_header(data)
    THEN [msg |-> Null, cache |-> cache, ciphered |-> FALSE]
    ELSE IF ~validate_crc(data)
    THEN [msg |-> Null, cache |-> cache, ciphered |-> FALSE]
    ELSE LET cache2    == get_cipher(cache, passphrase)
             decrypted == decrypt_bytes(cache2[passphrase], Slice(data, 51, 147))
         IN  [msg |-> Some(Decode(data, decrypted)), cache |-> cache2,
              ciphered |-> TRUE]

\* parse(data, passphrase): [msg |-> Optional[ParsedMessage], cache |-> the
\* cipher cache afterwards, ciphered |-> whether get_cipher was called]
parse(cache, data, passphrase) ==
    IF ~validate_header(data)
    THEN [msg |-> Null, cache |-> cache, ciphered |-> FALSE]
    ELSE IF ~validate_crc(data)
    THEN [msg |-> Null, cache |-> cache, ciphered |-> FALSE]
    ELSE LET cache2    == get_cipher(cache, passphrase)
             decrypted == decrypt_bytes(cache2[passphrase], Slice(data, 51, 147))
         IN  IF ~PayloadCrcOk(decrypted)
             THEN [msg |-> Null, cache |-> cache2, ciphered |-> TRUE]
             ELSE [msg |-> Some(Decode(data, decrypted)), cache |-> cache2,
                   ciphered |-> TRUE]

(***************************************************************************)
(* The world of the ingest pipeline: registered devices, the frames a      *)
(* beacon can put on the wire, and how its byte stream is cut into TCP     *)
(* segments.                                                               *)
(***************************************************************************)
\* most frames one connection carries
MaxFrames == 2

PASS_FRED == <<102, 114, 101, 100, 102, 114, 101, 100>>

PASS_WRONG == <<119, 114, 111, 110, 103>>

KEY_7 == <<6, 234, 131, 163>>

KEY_8 == <<6, 234, 131, 164>>

KEY_9 == <<6, 234, 131, 165>>

KEY_UNKNOWN == <<222, 173, 190, 239>>

Serial(n) == <<83, 73, 77, 48, 48, 48, 48, 48, 48, 48, 48 + n>>

\* The devices table as registered: 7 is enabled, 8 is enabled but its
\* server-side passphrase is not the one its beacon uses, 9 is disabled.
DeviceIds == {7, 8, 9}

InitDevices ==
    [d \in DeviceIds |->
        [ device_key    |-> CASE d = 7 -> KEY_7 [] d = 8 -> KEY_8 [] d = 9 -> KEY_9,
          serial_number |-> Serial(d - 6),
          passphrase    |-> IF d = 8 THEN PASS_WRONG ELSE PASS_FRED,
          enabled       |-> d # 9,
          last_seen_at  |-> Null ]]

Beacon(key, n) ==
    [ device_key |-> key, serial_number |-> Serial(n), passphrase |-> PASS_FRED,
      latitude |-> 3090444, longitude |-> -7668, sequence |-> 0 ]

BeaconTime == DateTime(2024, 6, 1, 12, 0, 0)

\* What a peer can send as one 149-byte unit.
Kinds == {"good", "wrongpass", "disabled", "unknown", "badheader", "badcrc"}

GoodFrame == build_message(Beacon(KEY_7, 1), 0, 100, BeaconTime)

FrameOf ==
    [k \in Kinds |->
        CASE k = "good"      -> GoodFrame
          [] k = "wrongpass" -> build_message(Beacon(KEY_8, 2), 0, 100, BeaconTime)
          [] k = "disabled"  -> build_message(Beacon(KEY_9, 3), 0, 100, BeaconTime)
          [] k = "unknown"   -> build_message(Beacon(KEY_UNKNOWN, 4), 0, 100, BeaconTime)
          [] k = "badheader" -> Put(GoodFrame, 0, <<35>>)
          [] k = "badcrc"    -> Put(GoodFrame, 30, <<255>>) ]

\* A script is what the peer writes on one connection: up to MaxFrames
\* frames, with one stray byte before frame number garbage (0: none).
Scripts == UNION {[1..n -> Kinds] : n \in 0..MaxFrames}

GARBAGE == <<0>>

RECURSIVE WireFrom(_, _, _)
WireFrom(frames, stray, i) ==
    IF i > Len(frames) THEN <<>>
    ELSE (IF stray = i THEN GARBAGE ELSE <<>>)
         \o FrameOf[frames[i]] \o WireFrom(frames, stray, i + 1)

\* TCP may end a segment at these offsets within a frame-sized stretch of
\* the wire (and at the end of the wire), so that segments of 1, 49, 50, 98,
\* 99, 148, 149, 150, 298, ... bytes occur
CutOffsets == {0, 1, 50, 148}

VARIABLES
    script,         \* the frames the peer writes on the connection
    garbage,        \* the frame a stray byte precedes, or 0
    received,       \* number of bytes of the wire delivered so far
    segments,       \* number of data_received calls so far (FramingSpec)
    buffer,         \* CiNetProtocolHandler.buffer
    transport,      \* CiNetProtocolHandler.transport: "open" or "closed"
    tasks,          \* the _process_message tasks, in creation order
    devices,        \* the devices table
    positions,      \* the positions table, in commit order
    committed,      \* for each row of positions, the task that wrote it
    cipher_cache,   \* CiNetMessageParser._cipher_cache
    clock           \* datetime.now(): every reading is later than the one before

ingestVars == <<script, garbage, received, segments, buffer, transport, tasks,
                devices, positions, committed, cipher_cache, clock>>

\* the state of the WebSocketManager and of the tasks that use it
VARIABLES
    device_subscriptions,   \* dict device_id -> set of websockets
    websocket_devices,      \* dict websocket -> set of device ids
    connections,            \* set of websockets
    lock,                   \* WebSocketManager._lock and the task holding it
    ep,                     \* the websocket_endpoint task of each sink
    bc,                     \* the broadcast_position / broadcast_alert tasks
    detached,               \* sinks for which a disconnect() has completed
    messages                \* number of client messages received so far

hubVars == <<device_subscriptions, websocket_devices, connections, lock, ep,
             bc, detached, messages>>

\* a Datong timestamp on its way through the codec
VARIABLES
    stamp_src,      \* "beacon": a date-time is encoded; "wire": 5 bytes arrive
    stamp_in,       \* the date-time, or the fields the 5 bytes were packed from
    stamp_ts,       \* the 5 bytes, once there are any
    stamp_out,      \* what _decode_datong_timestamp returned, once it has
    stamp_msg       \* what parse returned for a frame carrying the 5 bytes

\* one frame on its way from the reference encoder through the parser
VARIABLES
    frame_sim,      \* what the frame was built from
    frame_in,       \* the bytes handed to parse, once there are any
    frame_out,      \* what parse returned, and the row built from it
    cipher_users    \* for each passphrase, the device keys parsed with it

frameVars == <<frame_sim, frame_in, frame_out, cipher_users>>

codecVars == <<stamp_src, stamp_in, stamp_ts, stamp_out, stamp_msg, frameVars>>

Wire == WireFrom(script, garbage, 1)

\* all bytes data_received has been given so far
Stream == SubSeq(Wire, 1, received)

(***************************************************************************)
(* CiNetProtocolHandler.data_received (protocol/server.py).                *)
(***************************************************************************)
\* a freshly created _process_message task
NewTask(message_data) ==
    [ data     |-> message_data,
      pc       |-> "created",
      outcome  |-> "",
      ciphered |-> FALSE,     \* whether get_cipher was called for the frame
      device   |-> Null,      \* id of the Device the lookup returned
      position |-> Null,      \* the Position added to the session
      seen     |-> Null,      \* the last_seen_at set on the Device object
      published |-> <<>> ]    \* device ids on_position was called with

\* Variants of the loop, for comparison: one that wants more than a frame in
\* the buffer, one that creates the task of a later frame first.
RECURSIVE FrameLoopStrict(_, _)
FrameLoopStrict(buf, created) ==
    IF Len(buf) > MSG_LENGTH
    THEN FrameLoopStrict(Slice(buf, MSG_LENGTH, Len(buf)),
                         Append(created, NewTask(Slice(buf, 0, MSG_LENGTH))))
    ELSE [buffer |-> buf, created |-> created]

RECURSIVE FrameLoopLastFirst(_, _)
FrameLoopLastFirst(buf, created) ==
    IF Len(buf) >= MSG_LENGTH
    THEN FrameLoopLastFirst(Slice(buf, MSG_LENGTH, Len(buf)),
                            <<NewTask(Slice(buf, 0, MSG_LENGTH))>> \o created)
    ELSE [buffer |-> buf, created |-> created]

\* A variant of the loop that drops bytes until the buffer begins with the
\* start byte.
RECURSIVE FrameLoopResync(_, _)
FrameLoopResync(buf, created) ==
    IF Len(buf) < MSG_LENGTH THEN [buffer |-> buf, created |-> created]
    ELSE IF At(buf, 0) # START_BYTE
    THEN FrameLoopResync(Slice(buf, 1, Len(buf)), created)
    ELSE FrameLoopResync(Slice(buf, MSG_LENGTH, Len(buf)),
                         Append(created, NewTask(Slice(buf, 0, MSG_LENGTH))))

\* while len(self.buffer) >= MSG_LENGTH: split off a frame, create its task
RECURSIVE FrameLoop(_, _)
FrameLoop(buf, created) ==
    IF Len(buf) >= MSG_LENGTH
    THEN FrameLoop(Slice(buf, MSG_LENGTH, Len(buf)),
                   Append(created, NewTask(Slice(buf, 0, MSG_LENGTH))))
    ELSE [buffer |-> buf, created |-> created]

\* A variant that frames each segment on its own and forgets the bytes a
\* segment leaves over.
data_received_per_segment(data) ==
    LET r == FrameLoop(data, <<>>)
    IN  /\ buffer' = <<>>
        /\ tasks' = tasks \o r.created
        /\ received' = received + Len(data)
        /\ UNCHANGED <<script, garbage, transport, devices, positions,
                       committed, cipher_cache, clock>>

data_received(data) ==
    LET r == FrameLoop(buffer \o data, <<>>)
    IN  /\ buffer' = r.buffer
        /\ tasks' = tasks \o r.created
        /\ received' = received + Len(data)
        /\ UNCHANGED <<script, garbage, transport, devices, positions,
                       committed, cipher_cache, clock>>

\* the transport delivers the wire up to a later cut, at one of the offsets
\* within a frame-sized stretch, or up to its end
Delivers(offsets) ==
    LET w == Wire
    IN  \E to \in {Len(w)} \cup
                  {f * MSG_LENGTH + r : f \in 0..Len(script), r \in offsets} :
            /\ transport = "open"
            /\ to > received
            /\ to <= Len(w)
            /\ data_received(SubSeq(w, received + 1, to))

\* segments that end where a frame-sized stretch of the wire ends
Receive == Delivers({0}) /\ UNCHANGED <<segments, hubVars, codecVars>>

\* segments of all the sizes, with the data_received calls counted
ReceiveSegment ==
    /\ Delivers(CutOffsets)
    /\ segments' = segments + 1
    /\ UNCHANGED <<hubVars, codecVars>>

(***************************************************************************)
(* CiNetProtocolHandler._process_message, one action per stretch between   *)
(* suspension points.  t is the index of the task in tasks.                *)
(***************************************************************************)
Finish(t, outcome) ==
    tasks' = [tasks EXCEPT ![t].pc = "done", ![t].outcome = outcome]

\* select(Device).where(Device.device_key == device_key): scalar_one_or_none
FindDevice(device_key) ==
    LET found == {d \in DOMAIN devices : devices[d].device_key = device_key}
    IN  IF found = {} THEN Null ELSE Some(CHOOSE d \in found : TRUE)

\* heading=int(parsed.heading) if parsed.heading else None; the parsed heading
\* is in hundredths here, and a heading of 0.0 is falsy
PositionHeading(heading) ==
    IF heading # Null /\ heading # Some(0) THEN Some(heading[1] \div 100) ELSE Null

\* Position(...) built from the parsed message
MakePosition(device_id, parsed) ==
    [ device_id     |-> device_id,
      timestamp     |-> parsed.timestamp,
      latitude      |-> parsed.latitude,
      longitude     |-> parsed.longitude,
      speed         |-> parsed.speed,
      heading       |-> PositionHeading(parsed.heading),
      satellites    |-> parsed.satellites,
      hdop          |-> parsed.hdop,
      battery       |-> parsed.battery,
      is_moving     |-> parsed.motion > 0,
      temperature   |-> parsed.temperature,
      motion        |-> parsed.motion,
      gps_valid     |-> parsed.gps_valid,
      gps_accuracy  |-> IF parsed.gps_accuracy # "" THEN Some(parsed.gps_accuracy)
                        ELSE Null,
      message_type  |-> parsed.message_type,
      packet_number |-> parsed.packet_number,
      raw_data      |-> parsed.raw_data ]

\* A variant of the step below that closes the transport on a bad header.
StartClosesOnBadHeader(t) ==
    /\ tasks[t].pc = "created"
    /\ IF ~validate_header(tasks[t].data)
       THEN Finish(t, "BadHeader") /\ transport' = "closed"
       ELSE tasks' = [tasks EXCEPT ![t].pc = "lookup"] /\ UNCHANGED transport
    /\ UNCHANGED <<hubVars, codecVars>>
    /\ UNCHANGED <<script, garbage, received, segments, buffer,
                   devices, positions, committed, cipher_cache, clock>>

\* The task runs for the first time: header check, device key, and the
\* lookup query is sent.
Start(t) ==
    /\ tasks[t].pc = "created"
    /\ IF ~validate_header(tasks[t].data)
       THEN Finish(t, "BadHeader")
       ELSE tasks' = [tasks EXCEPT ![t].pc = "lookup"]
    /\ UNCHANGED <<hubVars, codecVars, transport>>
    /\ UNCHANGED <<script, garbage, received, segments, buffer,
                   devices, positions, committed, cipher_cache, clock>>

\* A variant of the step below without the device.enabled check.
LookupReturnsAnyDevice(t) ==
    /\ tasks[t].pc = "lookup"
    /\ LET device == FindDevice(extract_device_key(tasks[t].data))
       IN  IF device = Null
           THEN /\ Finish(t, "UnknownDevice")
                /\ UNCHANGED <<cipher_cache, clock>>
           ELSE LET p == parse(cipher_cache, tasks[t].data,
                               devices[device[1]].passphrase)
                IN  /\ cipher_cache' = p.cache
                    /\ IF p.msg = Null
                       THEN /\ tasks' = [tasks EXCEPT
                                 ![t].pc = "done",
                                 ![t].outcome = "ParseFailed",
                                 ![t].ciphered = p.ciphered]
                            /\ UNCHANGED clock
                       ELSE /\ clock' = clock + 1
                            /\ tasks' = [tasks EXCEPT
                                 ![t].pc = "commit",
                                 ![t].ciphered = p.ciphered,
                                 ![t].device = device,
                                 ![t].position =
                                     Some(MakePosition(device[1], p.msg[1])),
                                 ![t].seen = Some(clock + 1)]
    /\ UNCHANGED <<hubVars, codecVars, transport>>
    /\ UNCHANGED <<script, garbage, received, segments, buffer,
                   devices, positions, committed>>

\* A variant of the step below that deciphers the frame of an unknown device
\* (with an empty passphrase) before it drops it.
LookupReturnsDecryptsUnknown(t) ==
    /\ tasks[t].pc = "lookup"
    /\ LET device == FindDevice(extract_device_key(tasks[t].data))
       IN  IF device = Null
           THEN LET p == parse(cipher_cache, tasks[t].data, <<>>)
                IN  /\ cipher_cache' = p.cache
                    /\ tasks' = [tasks EXCEPT
                         ![t].pc = "done",
                         ![t].outcome = "UnknownDevice",
                         ![t].ciphered = p.ciphered]
                    /\ UNCHANGED clock
           ELSE IF ~devices[device[1]].enabled
           THEN /\ Finish(t, "DeviceDisabled")
                /\ UNCHANGED <<cipher_cache, clock>>
           ELSE LET p == parse(cipher_cache, tasks[t].data,
                               devices[device[1]].passphrase)
                IN  /\ cipher_cache' = p.cache
                    /\ IF p.msg = Null
                       THEN /\ tasks' = [tasks EXCEPT
                                 ![t].pc = "done",
                                 ![t].outcome = "ParseFailed",
                                 ![t].ciphered = p.ciphered]
                            /\ UNCHANGED clock
                       ELSE /\ clock' = clock + 1
                            /\ tasks' = [tasks EXCEPT
                                 ![t].pc = "commit",
                                 ![t].ciphered = p.ciphered,
                                 ![t].device = device,
                                 ![t].position =
                                     Some(MakePosition(device[1], p.msg[1])),
                                 ![t].seen = Some(clock + 1)]
    /\ UNCHANGED <<hubVars, codecVars, transport>>
    /\ UNCHANGED <<script, garbage, received, segments, buffer,
                   devices, positions, committed>>

\* session.execute returns: device checks, parse, session.add, last_seen_at,
\* and the commit is sent.
LookupReturns(t) ==
    /\ tasks[t].pc = "lookup"
    /\ LET device == FindDevice(extract_device_key(tasks[t].data))
       IN  IF device = Null
           THEN /\ Finish(t, "UnknownDevice")
                /\ UNCHANGED <<cipher_cache, clock>>
           ELSE IF ~devices[device[1]].enabled
           THEN /\ Finish(t, "DeviceDisabled")
                /\ UNCHANGED <<cipher_cache, clock>>
           ELSE LET p == parse(cipher_cache, tasks[t].data,
                               devices[device[1]].passphrase)
                IN  /\ cipher_cache' = p.cache
                    /\ IF p.msg = Null
                       THEN /\ tasks' = [tasks EXCEPT
                                 ![t].pc = "done",
                                 ![t].outcome = "ParseFailed",
                                 ![t].ciphered = p.ciphered]
                            /\ UNCHANGED clock
                       ELSE /\ clock' = clock + 1
                            /\ tasks' = [tasks EXCEPT
                                 ![t].pc = "commit",
                                 ![t].ciphered = p.ciphered,
                                 ![t].device = device,
                                 ![t].position =
                                     Some(MakePosition(device[1], p.msg[1])),
                                 ![t].seen = Some(clock + 1)]
    /\ UNCHANGED <<hubVars, codecVars, transport>>
    /\ UNCHANGED <<script, garbage, received, segments, buffer,
                   devices, positions, committed>>

\* session.commit returns: the Position row and the Device update are durable
CommitReturns(t) ==
    /\ tasks[t].pc = "commit"
    /\ positions' = Append(positions, tasks[t].position[1])
    /\ committed' = Append(committed, t)
    /\ devices' = [devices EXCEPT ![tasks[t].device[1]].last_seen_at = tasks[t].seen]
    /\ tasks' = [tasks EXCEPT ![t].pc = "refresh"]
    /\ UNCHANGED <<hubVars, codecVars, transport>>
    /\ UNCHANGED <<script, garbage, received, segments, buffer,
                   cipher_cache, clock>>

\* session.refresh returns and on_position(device.id, parsed) is called
RefreshReturns(t) ==
    /\ tasks[t].pc = "refresh"
    /\ tasks' = [tasks EXCEPT ![t].pc = "fanout",
                              ![t].published = Append(@, tasks[t].device[1])]
    /\ UNCHANGED <<hubVars, codecVars, transport>>
    /\ UNCHANGED <<script, garbage, received, segments, buffer,
                   devices, positions, committed, cipher_cache, clock>>

\* on_position returns
FanoutReturns(t) ==
    /\ tasks[t].pc = "fanout"
    /\ Finish(t, "Accepted")
    /\ UNCHANGED <<hubVars, codecVars, transport>>
    /\ UNCHANGED <<script, garbage, received, segments, buffer,
                   devices, positions, committed, cipher_cache, clock>>

\* A variant of the step below in which a failed commit is logged and the
\* position is published all the same.
RaisesStillPublishes(t) ==
    /\ tasks[t].pc \in {"lookup", "commit", "refresh", "fanout"}
    /\ IF tasks[t].pc = "commit"
       THEN tasks' = [tasks EXCEPT ![t].pc = "fanout",
                                   ![t].published = Append(@, tasks[t].device[1])]
       ELSE Finish(t, CASE tasks[t].pc = "lookup"  -> "LookupFailed"
                        [] tasks[t].pc = "refresh" -> "RefreshFailed"
                        [] tasks[t].pc = "fanout"  -> "FanoutFailed")
    /\ UNCHANGED <<hubVars, codecVars, transport>>
    /\ UNCHANGED <<script, garbage, received, segments, buffer,
                   devices, positions, committed, cipher_cache, clock>>

\* A variant of the step below in which the exception takes the connection
\* down with the task.
RaisesClosesTransport(t) ==
    /\ tasks[t].pc \in {"lookup", "commit", "refresh", "fanout"}
    /\ Finish(t, CASE tasks[t].pc = "lookup"  -> "LookupFailed"
                   [] tasks[t].pc = "commit"  -> "CommitFailed"
                   [] tasks[t].pc = "refresh" -> "RefreshFailed"
                   [] tasks[t].pc = "fanout"  -> "FanoutFailed")
    /\ transport' = "closed"
    /\ UNCHANGED <<hubVars, codecVars>>
    /\ UNCHANGED <<script, garbage, received, segments, buffer,
                   devices, positions, committed, cipher_cache, clock>>

\* the awaited call raises: except Exception logs it and the task ends
Raises(t) ==
    /\ tasks[t].pc \in {"lookup", "commit", "refresh", "fanout"}
    /\ Finish(t, CASE tasks[t].pc = "lookup"  -> "LookupFailed"
                   [] tasks[t].pc = "commit"  -> "CommitFailed"
                   [] tasks[t].pc = "refresh" -> "RefreshFailed"
                   [] tasks[t].pc = "fanout"  -> "FanoutFailed")
    /\ UNCHANGED <<hubVars, codecVars, transport>>
    /\ UNCHANGED <<script, garbage, received, segments, buffer,
                   devices, positions, committed, cipher_cache, clock>>

(***************************************************************************)
(* The end of a connection and the end of the process.                     *)
(***************************************************************************)
\* the tasks with every task that has not ended cancelled where it is
CancelPending ==
    [t \in DOMAIN tasks |->
        IF tasks[t].pc = "done" THEN tasks[t]
        ELSE [tasks[t] EXCEPT !.pc = "done", !.outcome = "Cancelled"]]

\* A variant of connection_lost that cancels the dispatches of the
\* connection.
connection_lost_cancels ==
    /\ transport = "open"
    /\ transport' = "closed"
    /\ tasks' = CancelPending
    /\ UNCHANGED <<hubVars, codecVars>>
    /\ UNCHANGED <<script, garbage, received, segments, buffer,
                   devices, positions, committed, cipher_cache, clock>>

\* connection_lost(exc): the peer closed the connection or it broke; the
\* handler logs it, and no data_received follows
connection_lost ==
    /\ transport = "open"
    /\ transport' = "closed"
    /\ UNCHANGED <<hubVars, codecVars>>
    /\ UNCHANGED <<script, garbage, received, segments, buffer, tasks,
                   devices, positions, committed, cipher_cache, clock>>

\* The shutdown signal was handled: run_servers has closed the listener,
\* awaited the API server and returned, and asyncio.run cancels every task
\* that is still pending and closes the loop, and with it the connection.
\* A commit that was in flight and reached the database is the same as the
\* commit having returned just before.
Shutdown ==
    /\ transport = "open"
    /\ transport' = "closed"
    /\ tasks' = CancelPending
    /\ UNCHANGED <<hubVars, codecVars>>
    /\ UNCHANGED <<script, garbage, received, segments, buffer,
                   devices, positions, committed, cipher_cache, clock>>

(***************************************************************************)
(* WebSocketManager (websocket/server.py): the subscription hub.           *)
(* A hub value is [device_subscriptions, websocket_devices, connections];  *)
(* a dict is a function whose DOMAIN is the set of its keys.               *)
(***************************************************************************)
\* client messages the hub receives, over all endpoints
MaxMsgs == 2

\* broadcasts started
MaxBroadcasts == 1

Sinks == {"s1", "s2"}

HubDevices == {7, 8}

Broadcasts == 1..MaxBroadcasts

Hub == [ device_subscriptions |-> device_subscriptions,
         websocket_devices    |-> websocket_devices,
         connections          |-> connections ]

Free == [held |-> FALSE, ep |-> "", bc |-> 0]

HeldByEp(s) == [held |-> TRUE, ep |-> s, bc |-> 0]

HeldByBc(b) == [held |-> TRUE, ep |-> "", bc |-> b]

\* connect, under the lock
connect(H, websocket) ==
    [ H EXCEPT
        !.connections = @ \cup {websocket},
        !.websocket_devices =
            [w \in DOMAIN @ \cup {websocket} |-> IF w = websocket THEN {} ELSE @[w]] ]

\* A variant of disconnect that drops the sink from the two dicts but leaves
\* it in the connections set.
disconnect_keeps_connection(H, websocket) ==
    LET subs  == H.device_subscriptions
        mine  == IF websocket \in DOMAIN H.websocket_devices
                 THEN H.websocket_devices[websocket] ELSE {}
        left  == {d \in DOMAIN subs : ~(d \in mine /\ subs[d] \ {websocket} = {})}
    IN  [ device_subscriptions |->
              [d \in left |-> IF d \in mine THEN subs[d] \ {websocket} ELSE subs[d]],
          websocket_devices |->
              [w \in DOMAIN H.websocket_devices \ {websocket} |->
                  H.websocket_devices[w]],
          connections |-> H.connections ]

\* A variant of disconnect that, for a sink without a reverse-index entry,
\* deletes the forward-index entries that are empty.
disconnect_sweeps_on_miss(H, websocket) ==
    IF websocket \in DOMAIN H.websocket_devices
    THEN [disconnect_keeps_connection(H, websocket) EXCEPT
             !.connections = @ \ {websocket}]
    ELSE [ H EXCEPT
             !.device_subscriptions =
                 [d \in {e \in DOMAIN @ : @[e] # {}} |-> @[d]],
             !.connections = @ \ {websocket} ]

\* A variant of disconnect that leaves the forward index as it is.
disconnect_reverse_only(H, websocket) ==
    [ H EXCEPT
        !.websocket_devices = [w \in DOMAIN @ \ {websocket} |-> @[w]],
        !.connections = @ \ {websocket} ]

\* disconnect, under the lock
disconnect(H, websocket) ==
    LET subs  == H.device_subscriptions
        mine  == IF websocket \in DOMAIN H.websocket_devices
                 THEN H.websocket_devices[websocket] ELSE {}
        left  == {d \in DOMAIN subs : ~(d \in mine /\ subs[d] \ {websocket} = {})}
    IN  [ device_subscriptions |->
              [d \in left |-> IF d \in mine THEN subs[d] \ {websocket} ELSE subs[d]],
          websocket_devices |->
              [w \in DOMAIN H.websocket_devices \ {websocket} |->
                  H.websocket_devices[w]],
          connections |-> H.connections \ {websocket} ]

\* A variant of subscribe without the check that the sink is attached.
subscribe_unguarded(H, websocket, device_ids) ==
    LET subs == H.device_subscriptions
        revs == H.websocket_devices
    IN  [ H EXCEPT
            !.device_subscriptions =
                [d \in DOMAIN subs \cup device_ids |->
                    (IF d \in DOMAIN subs THEN subs[d] ELSE {})
                    \cup (IF d \in device_ids THEN {websocket} ELSE {})],
            !.websocket_devices =
                [w \in DOMAIN revs \cup {websocket} |->
                    (IF w \in DOMAIN revs THEN revs[w] ELSE {})
                    \cup (IF w = websocket THEN device_ids ELSE {})] ]

\* subscribe, under the lock
subscribe(H, websocket, device_ids) ==
    IF websocket \notin DOMAIN H.websocket_devices THEN H
    ELSE LET subs == H.device_subscriptions
         IN  [ H EXCEPT
                 !.device_subscriptions =
                     [d \in DOMAIN subs \cup device_ids |->
                         (IF d \in DOMAIN subs THEN subs[d] ELSE {})
                         \cup (IF d \in device_ids THEN {websocket} ELSE {})],
                 !.websocket_devices[websocket] = @ \cup device_ids ]

\* A variant of unsubscribe that updates device_subscriptions only.
unsubscribe_forward_only(H, websocket, device_ids) ==
    IF websocket \notin DOMAIN H.websocket_devices THEN H
    ELSE LET subs == H.device_subscriptions
         IN  [ H EXCEPT
                 !.device_subscriptions =
                     [d \in DOMAIN subs |->
                         IF d \in device_ids THEN subs[d] \ {websocket} ELSE subs[d]] ]

\* unsubscribe, under the lock
unsubscribe(H, websocket, device_ids) ==
    IF websocket \notin DOMAIN H.websocket_devices THEN H
    ELSE LET subs == H.device_subscriptions
         IN  [ H EXCEPT
                 !.device_subscriptions =
                     [d \in DOMAIN subs |->
                         IF d \in device_ids THEN subs[d] \ {websocket} ELSE subs[d]],
                 !.websocket_devices[websocket] = @ \ device_ids ]

\* A variant of the snapshot that takes every connection.
SubscribersAll(H, device_id) == H.connections

\* self.device_subscriptions.get(device_id, set()).copy()
Subscribers(H, device_id) ==
    IF device_id \in DOMAIN H.device_subscriptions
    THEN H.device_subscriptions[device_id] ELSE {}

SetHub(H) ==
    /\ device_subscriptions' = H.device_subscriptions
    /\ websocket_devices' = H.websocket_devices
    /\ connections' = H.connections

(***************************************************************************)
(* websocket_endpoint(websocket, token): one task per sink.  pc is where   *)
(* the task is suspended: "accept", "close", "receive", "reply" (awaiting  *)
(* the websocket) or "wait" (awaiting the lock for op).                    *)
(***************************************************************************)
InitEndpoint == [pc |-> "init", op |-> "", ids |-> {}]

\* the endpoint starts: connect() validates the token, then accepts
EpStart(s) ==
    /\ ep[s].pc = "init"
    /\ \E token_ok \in BOOLEAN :
          ep' = [ep EXCEPT ![s].pc = IF token_ok THEN "accept" ELSE "close"]
    /\ UNCHANGED <<ingestVars, codecVars, messages, device_subscriptions,
                   websocket_devices, connections, lock, bc, detached>>

\* websocket.close(code=4001) ends (or raises): connect fails, the endpoint returns
EpCloseEnds(s) ==
    /\ ep[s].pc = "close"
    /\ ep' = [ep EXCEPT ![s].pc = "ended"]
    /\ UNCHANGED <<ingestVars, codecVars, messages, device_subscriptions,
                   websocket_devices, connections, lock, bc, detached>>

\* websocket.accept() returns, or raises out of connect and the endpoint
EpAcceptEnds(s) ==
    /\ ep[s].pc = "accept"
    /\ \E ok \in BOOLEAN :
          ep' = [ep EXCEPT ![s].pc = IF ok THEN "wait" ELSE "ended",
                           ![s].op = IF ok THEN "connect" ELSE ""]
    /\ UNCHANGED <<ingestVars, codecVars, messages, device_subscriptions,
                   websocket_devices, connections, lock, bc, detached>>

\* async with self._lock: the lock is free, the task takes it, runs the body
\* (which awaits nothing), releases it and goes on to its next await
EpCritical(s) ==
    /\ ep[s].pc = "wait"
    /\ ~lock.held
    /\ SetHub(CASE ep[s].op = "connect"     -> connect(Hub, s)
                [] ep[s].op = "subscribe"   -> subscribe(Hub, s, ep[s].ids)
                [] ep[s].op = "unsubscribe" -> unsubscribe(Hub, s, ep[s].ids)
                [] ep[s].op = "disconnect"  -> disconnect(Hub, s))
    /\ lock' = Free
    /\ ep' = [ep EXCEPT
                ![s].pc = CASE ep[s].op = "connect"    -> "receive"
                            [] ep[s].op = "disconnect" -> "ended"
                            [] OTHER                   -> "reply",
                ![s].op = "",
                ![s].ids = {}]
    /\ detached' = IF ep[s].op = "disconnect" THEN detached \cup {s} ELSE detached
    /\ UNCHANGED <<ingestVars, codecVars, messages, bc>>

\* receive_text() returns a message: handle_message
EpMessage(s) ==
    /\ ep[s].pc = "receive"
    /\ messages < MaxMsgs
    /\ messages' = messages + 1
    /\ \E type \in {"subscribe", "unsubscribe", "ping", "other"} :
       \E device_ids \in SUBSET HubDevices :
          /\ type \in {"ping", "other"} => device_ids = {}
          /\ ep' = [ep EXCEPT
                      ![s].pc = CASE type = "ping"  -> "reply"
                                  [] type = "other" -> "receive"
                                  [] OTHER          -> "wait",
                      ![s].op = IF type \in {"ping", "other"} THEN "" ELSE type,
                      ![s].ids = device_ids]
    /\ UNCHANGED <<ingestVars, codecVars, device_subscriptions, websocket_devices,
                   connections, lock, bc, detached>>

\* send_text of the reply returns
EpReplyReturns(s) ==
    /\ ep[s].pc = "reply"
    /\ ep' = [ep EXCEPT ![s].pc = "receive"]
    /\ UNCHANGED <<ingestVars, codecVars, messages, device_subscriptions,
                   websocket_devices, connections, lock, bc, detached>>

\* A variant of the step below in which the endpoint ends without calling
\* disconnect.
EpRaisesAndReturns(s) ==
    /\ ep[s].pc \in {"receive", "reply"}
    /\ ep' = [ep EXCEPT ![s].pc = "ended"]
    /\ UNCHANGED <<ingestVars, codecVars, messages, device_subscriptions,
                   websocket_devices, connections, lock, bc, detached>>

\* receive_text or send_text raises (WebSocketDisconnect or any other
\* exception): the endpoint calls disconnect
EpRaises(s) ==
    /\ ep[s].pc \in {"receive", "reply"}
    /\ ep' = [ep EXCEPT ![s].pc = "wait", ![s].op = "disconnect"]
    /\ UNCHANGED <<ingestVars, codecVars, messages, device_subscriptions,
                   websocket_devices, connections, lock, bc, detached>>

(***************************************************************************)
(* broadcast_position / broadcast_alert: one task per broadcast.           *)
(***************************************************************************)
InitBroadcast ==
    [ pc |-> "init", op |-> "", device_id |-> 0,
      subscribers  |-> {},      \* the snapshot
      todo         |-> {},      \* sinks the for loop has not reached yet
      target       |-> "",      \* the sink whose send_text is awaited
      attempted    |-> <<>>,    \* the sinks send_text was called on, in order
      disconnected |-> <<>>,    \* the list of sinks whose send raised
      cleanup      |-> 0 ]      \* index in disconnected of the disconnect awaited

\* broadcast_position or broadcast_alert is called for a device and asks for
\* the lock; the calls are numbered in the order they are made
BcStart(b) ==
    /\ bc[b].pc = "init"
    /\ \A a \in Broadcasts : a < b => bc[a].pc # "init"
    /\ \E d \in HubDevices :
          bc' = [bc EXCEPT ![b].pc = "wait", ![b].op = "snapshot",
                           ![b].device_id = d]
    /\ UNCHANGED <<ingestVars, codecVars, messages, device_subscriptions,
                   websocket_devices, connections, lock, ep, detached>>

\* the for loop moves on: send_text is called on a sink not yet reached, or
\* the loop is over and the failed sinks are disconnected one by one
BcContinue(b, r) ==
    IF r.todo # {}
    THEN \E w \in r.todo :
            bc' = [bc EXCEPT ![b] = [r EXCEPT !.pc = "send", !.target = w,
                                              !.todo = @ \ {w},
                                              !.attempted = Append(@, w)]]
    ELSE IF r.cleanup < Len(r.disconnected)
    THEN bc' = [bc EXCEPT ![b] = [r EXCEPT !.pc = "wait", !.op = "disconnect",
                                           !.target = "",
                                           !.cleanup = @ + 1]]
    ELSE bc' = [bc EXCEPT ![b] = [r EXCEPT !.pc = "ended", !.op = "",
                                           !.target = ""]]

\* A variant of the snapshot step that goes on to send with the lock held.
BcSnapshotKeepsLock(b) ==
    /\ bc[b].pc = "wait"
    /\ bc[b].op = "snapshot"
    /\ ~lock.held
    /\ lock' = HeldByBc(b)
    /\ LET subscribers == Subscribers(Hub, bc[b].device_id)
       IN  BcContinue(b, [bc[b] EXCEPT !.subscribers = subscribers,
                                       !.todo = subscribers])
    /\ UNCHANGED <<ingestVars, codecVars, messages, device_subscriptions,
                   websocket_devices, connections, ep, detached>>

\* under the lock: the snapshot is taken
BcSnapshot(b) ==
    /\ bc[b].pc = "wait"
    /\ bc[b].op = "snapshot"
    /\ ~lock.held
    /\ lock' = Free
    /\ LET subscribers == Subscribers(Hub, bc[b].device_id)
       IN  BcContinue(b, [bc[b] EXCEPT !.subscribers = subscribers,
                                       !.todo = subscribers])
    /\ UNCHANGED <<ingestVars, codecVars, messages, device_subscriptions,
                   websocket_devices, connections, ep, detached>>

\* send_text returns
BcSendReturns(b) ==
    /\ bc[b].pc = "send"
    /\ BcContinue(b, bc[b])
    /\ UNCHANGED <<ingestVars, codecVars, messages, device_subscriptions,
                   websocket_devices, connections, lock, ep, detached>>

\* A variant of the failed send that leaves the for loop.
BcSendRaisesAndStops(b) ==
    /\ bc[b].pc = "send"
    /\ BcContinue(b, [bc[b] EXCEPT !.disconnected = Append(@, bc[b].target),
                                   !.todo = {}])
    /\ UNCHANGED <<ingestVars, codecVars, messages, device_subscriptions,
                   websocket_devices, connections, lock, ep, detached>>

\* send_text raises: disconnected.append(websocket)
BcSendRaises(b) ==
    /\ bc[b].pc = "send"
    /\ BcContinue(b, [bc[b] EXCEPT !.disconnected = Append(@, bc[b].target)])
    /\ UNCHANGED <<ingestVars, codecVars, messages, device_subscriptions,
                   websocket_devices, connections, lock, ep, detached>>

\* under the lock: disconnect(websocket) of a failed sink
BcDisconnect(b) ==
    /\ bc[b].pc = "wait"
    /\ bc[b].op = "disconnect"
    /\ ~lock.held
    /\ lock' = Free
    /\ SetHub(disconnect(Hub, bc[b].disconnected[bc[b].cleanup]))
    /\ detached' = detached \cup {bc[b].disconnected[bc[b].cleanup]}
    /\ BcContinue(b, bc[b])
    /\ UNCHANGED <<ingestVars, codecVars, messages, ep>>

HubInit ==
    /\ device_subscriptions = <<>>
    /\ websocket_devices = <<>>
    /\ connections = {}
    /\ lock = Free
    /\ ep = [s \in Sinks |-> InitEndpoint]
    /\ bc = [b \in Broadcasts |-> InitBroadcast]
    /\ detached = {}
    /\ messages = 0

HubNext ==
    \/ \E s \in Sinks : EpStart(s)
    \/ \E s \in Sinks : EpCloseEnds(s)
    \/ \E s \in Sinks : EpAcceptEnds(s)
    \/ \E s \in Sinks : EpCritical(s)
    \/ \E s \in Sinks : EpMessage(s)
    \/ \E s \in Sinks : EpReplyReturns(s)
    \/ \E s \in Sinks : EpRaises(s)
    \/ \E b \in Broadcasts : BcStart(b)
    \/ \E b \in Broadcasts : BcSnapshot(b)
    \/ \E b \in Broadcasts : BcSendReturns(b)
    \/ \E b \in Broadcasts : BcSendRaises(b)
    \/ \E b \in Broadcasts : BcDisconnect(b)

(***************************************************************************)
(* The frame codec on its own: the reference encoder builds a frame        *)
(* (BeaconSimulator.build_message), the peer may alter it, and the parser  *)
(* is called on the bytes with some device's passphrase.                   *)
(***************************************************************************)
Passphrases == {PASS_FRED, PASS_WRONG}

\* the frame with `bytes` put at offset `at` of its plaintext, sealed as the
\* encoder seals a frame: payload CRC, encryption, message CRC
Refit(frame, passphrase, at, bytes) ==
    LET cipher == Blowfish(derive_key(passphrase))
        plain  == Put(frame, 51, decrypt_bytes(cipher, Slice(frame, 51, 147)))
        b21    == Put(plain, at, bytes)
        crc1   == CRC16(b21, 55, 92)
        b22    == Put(b21, 53, <<255 - (crc1 % 256), 255 - ((crc1 \div 256) % 256)>>)
        b23    == Put(b22, 51, encrypt_bytes(cipher, Slice(b22, 51, 147)))
        crc2   == CRC16(b23, 0, 147)
    IN  Put(b23, 147, <<255 - (crc2 % 256), 255 - ((crc2 \div 256) % 256)>>)

\* What one frame is built from: the simulator's device key, passphrase and
\* sequence counter, the speed and battery it reports; then `bytes` put at
\* offset `at` (sealed again or not), and the number of bytes sent.
FrameInput(key, passphrase, sequence, speed, battery) ==
    [ device_key |-> key, passphrase |-> passphrase, sequence |-> sequence,
      speed |-> speed, battery |-> battery,
      at |-> 0, bytes |-> <<>>, sealed |-> TRUE, len |-> MSG_LENGTH ]

PlainInput == FrameInput(KEY_7, PASS_FRED, 0, 0, 100)

\* The frames that are tried: frames exactly as the reference encoder builds
\* them; other headings (payload offset 33), HDOP values and GPS-valid bytes
\* (payload offsets 42 and 44); other start bytes, packet types and declared
\* lengths, with the CRCs of the altered frame or of the frame as built; one
\* byte damaged in the header, the payload or the message CRC; fewer or more
\* bytes than a frame has.
FrameInputs ==
    LET Altered(at, bytes, sealed) ==
            [PlainInput EXCEPT !.at = at, !.bytes = bytes, !.sealed = sealed]
    IN  { FrameInput(k, p, q, v, b) :
            k \in {KEY_7, KEY_8}, p \in Passphrases, q \in {0, 254, 255},
            v \in {0, 50}, b \in {0, 100, 255} }
        \cup { Altered(84, U16BE(h), TRUE) :
                 h \in {0, 1, 9000, 35999, 65534, 65535} }
        \cup { Altered(93, U16BE(h) \o <<v>>, TRUE) :
                 h \in {0, 1, 99, 100, 101, 199, 200, 201, 499, 500, 501, 65535},
                 v \in {0, 1, 2, 255} }
        \cup { Altered(a, <<b>>, z) :
                 a \in {0, 1}, b \in {0, 35, 36, 84, 85}, z \in BOOLEAN }
        \cup { Altered(2, U16BE(n), z) :
                 n \in {0, 148, 150, 65535}, z \in BOOLEAN }
        \cup { Altered(a, <<255>>, FALSE) : a \in {30, 60, 147, 148} }
        \cup { [PlainInput EXCEPT !.len = n] : n \in {0, 1, 2, 148, 150} }

FrameFor(i) ==
    LET sim     == [ device_key |-> i.device_key, serial_number |-> Serial(1),
                     passphrase |-> i.passphrase, latitude |-> 3090444,
                     longitude |-> -7668, sequence |-> i.sequence ]
        built   == build_message(sim, i.speed, i.battery, BeaconTime)
        altered == IF i.bytes = <<>> THEN built
                   ELSE IF i.sealed THEN Refit(built, i.passphrase, i.at, i.bytes)
                   ELSE Put(built, i.at, i.bytes)
    IN  IF i.len <= MSG_LENGTH THEN SubSeq(altered, 1, i.len)
        ELSE altered \o Zeros(i.len - MSG_LENGTH)

\* the frame of every input
BuiltFrames == [i \in FrameInputs |-> FrameFor(i)]

\* no frame is on its way
FrameIdle ==
    /\ frame_sim = PlainInput
    /\ frame_in = Null
    /\ frame_out = Null
    /\ cipher_users = [p \in Passphrases |-> {}]

\* a frame is built
EncodeFrame ==
    /\ frame_in = Null
    /\ \E i \in FrameInputs :
          /\ frame_sim' = i
          /\ frame_in' = Some(BuiltFrames[i])
    /\ UNCHANGED <<ingestVars, hubVars, stamp_src, stamp_in, stamp_ts, stamp_out,
                   stamp_msg, frame_out, cipher_users>>

\* parser.parse(data, device.passphrase), and the Position built from what it
\* returned
ParseFrame ==
    /\ frame_in # Null
    /\ frame_out = Null
    /\ \E passphrase \in Passphrases :
          \E parsed \in {parse(cipher_cache, frame_in[1], passphrase)} :
          LET data   == frame_in[1]
              device == FindDevice(extract_device_key(data))
          IN  /\ cipher_cache' = parsed.cache
              /\ frame_out' =
                   Some([ passphrase |-> passphrase,
                          msg        |-> parsed.msg,
                          ciphered   |-> parsed.ciphered,
                          row        |-> IF parsed.msg = Null \/ device = Null
                                         THEN Null
                                         ELSE Some(MakePosition(device[1],
                                                                parsed.msg[1])) ])
              /\ cipher_users' =
                   IF parsed.ciphered
                   THEN [cipher_users EXCEPT ![passphrase] =
                            @ \cup {extract_device_key(data)}]
                   ELSE cipher_users
    /\ UNCHANGED <<hubVars, stamp_src, stamp_in, stamp_ts, stamp_out, stamp_msg,
                   frame_sim, frame_in>>
    /\ UNCHANGED <<script, garbage, received, segments, buffer, transport, tasks,
                   devices, positions, committed, clock>>

\* the frame is done with; the parser and its cache stay
ForgetFrame ==
    /\ frame_out # Null
    /\ frame_sim' = PlainInput
    /\ frame_in' = Null
    /\ frame_out' = Null
    /\ UNCHANGED <<ingestVars, hubVars, stamp_src, stamp_in, stamp_ts, stamp_out,
                   stamp_msg, cipher_users>>

(***************************************************************************)
(* The Datong codec on its own: a beacon encodes a date-time               *)
(* (BeaconSimulator._encode_datong_timestamp), or five bytes arrive off    *)
(* the wire; the parser decodes the five bytes.                            *)
(***************************************************************************)
Epoch == DateTime(1980, 1, 1, 0, 0, 0)

\* date-times a beacon's clock can show, 1980..2107
BeaconStamps ==
    { dt \in { DateTime(y, mo, d, h, mi, s) :
                 y \in {1980, 2000, 2023, 2024, 2100, 2107}, mo \in 1..12,
                 d \in {1, 15, 28, 29, 30, 31}, h \in {0, 12, 23},
                 mi \in {0, 7, 8, 59}, s \in {0, 1, 58, 59} } :
        ValidDateTime(dt.year, dt.month, dt.day, dt.hour, dt.minute, dt.second) }

\* what the fields of five bytes off the wire can hold: 5 bits of day, 4 of
\* month, 7 of year, 5 of hour, 6 of minute, 6 of second
WireStamps ==
    { DateTime(y, mo, d, h, mi, s) :
         y \in {1980, 2023, 2024, 2100, 2107}, mo \in {0, 1, 2, 4, 12, 13, 15},
         d \in {0, 1, 29, 30, 31}, h \in {0, 23, 24, 31},
         mi \in {0, 59, 60, 63}, s \in {0, 59, 60, 63} }

\* the five bytes that hold the fields f; low is the unused 7 bits of byte 4
PackStamp(f, low) ==
    << f.day * 8 + f.month \div 2,
       (f.month % 2) * 128 + (f.year - 1980),
       f.hour * 8 + f.minute \div 8,
       (f.minute % 8) * 32 + f.second \div 2,
       (f.second % 2) * 128 + low >>

\* no timestamp is on its way
CodecIdle ==
    /\ stamp_src = "none"
    /\ stamp_in = Epoch
    /\ stamp_ts = Null
    /\ stamp_out = Null
    /\ stamp_msg = Null
    /\ FrameIdle

\* the wire fields that are also tried inside a whole frame
FramedStamps ==
    { f \in WireStamps : /\ f.year = 2023
                         /\ f.hour \in {0, 24}
                         /\ f.minute = 0
                         /\ f.second \in {0, 60} }

StampInit ==
    /\ stamp_out = Null
    /\ stamp_msg = Null
    /\ FrameIdle
    /\ \/ /\ stamp_src = "beacon"
          /\ stamp_in \in BeaconStamps
          /\ stamp_ts = Null
       \/ /\ stamp_src = "wire"
          /\ stamp_in \in WireStamps
          /\ \E low \in {0, 127} : stamp_ts = Some(PackStamp(stamp_in, low))

\* the beacon puts its date-time into five bytes
EncodeStamp ==
    /\ stamp_src = "beacon"
    /\ stamp_ts = Null
    /\ stamp_ts' = Some(_encode_datong_timestamp(stamp_in))
    /\ UNCHANGED <<ingestVars, hubVars, frameVars, stamp_src, stamp_in, stamp_out,
                   stamp_msg>>

\* the parser decodes the five bytes
DecodeStamp ==
    /\ stamp_ts # Null
    /\ stamp_out = Null
    /\ stamp_out' = Some(_decode_datong_timestamp(stamp_ts[1]))
    /\ UNCHANGED <<ingestVars, hubVars, frameVars, stamp_src, stamp_in, stamp_ts,
                   stamp_msg>>

\* a frame whose header and GPS timestamps are the five bytes is parsed with
\* its device's passphrase
ParseStamped ==
    /\ stamp_src = "wire"
    /\ stamp_in \in FramedStamps
    /\ stamp_ts = Some(PackStamp(stamp_in, 0))
    /\ stamp_out # Null
    /\ stamp_msg = Null
    /\ LET data == build_message(Beacon(KEY_7, 1), 0, 100, stamp_in)
       IN  /\ Slice(data, 46, 51) = stamp_ts[1]
           /\ stamp_msg' = Some(parse(<<>>, data, PASS_FRED).msg)
    /\ UNCHANGED <<ingestVars, hubVars, frameVars, stamp_src, stamp_in, stamp_ts,
                   stamp_out>>

IngestInit ==
    /\ script \in Scripts
    /\ garbage \in 0..Len(script)
    /\ received = 0
    /\ segments = 0
    /\ buffer = <<>>
    /\ transport = "open"
    /\ tasks = <<>>
    /\ devices = InitDevices
    /\ positions = <<>>
    /\ committed = <<>>
    /\ cipher_cache = <<>>
    /\ clock = 0

vars == <<ingestVars, hubVars, codecVars>>

(***************************************************************************)
(* Spec: one ingest connection and the dispatch tasks of its frames.       *)
(***************************************************************************)
Init == IngestInit /\ HubInit /\ CodecIdle

Next ==
    \/ Receive
    \/ \E t \in DOMAIN tasks : Start(t)
    \/ \E t \in DOMAIN tasks : LookupReturns(t)
    \/ \E t \in DOMAIN tasks : CommitReturns(t)
    \/ \E t \in DOMAIN tasks : RefreshReturns(t)
    \/ \E t \in DOMAIN tasks : FanoutReturns(t)
    \/ \E t \in DOMAIN tasks : Raises(t)

Spec == Init /\ [][Next]_vars

(***************************************************************************)
(* CloseSpec: the ingest connection until and after its transport is lost. *)
(***************************************************************************)
\* the connections whose frames are valid or have a wrong message CRC
CloseInit ==
    /\ Init
    /\ \A i \in DOMAIN script : script[i] \in {"good", "badcrc"}

CloseNext ==
    \/ Receive
    \/ connection_lost
    \/ \E t \in DOMAIN tasks : Start(t)
    \/ \E t \in DOMAIN tasks : LookupReturns(t)
    \/ \E t \in DOMAIN tasks : CommitReturns(t)
    \/ \E t \in DOMAIN tasks : RefreshReturns(t)
    \/ \E t \in DOMAIN tasks : FanoutReturns(t)
    \/ \E t \in DOMAIN tasks : Raises(t)

\* the event loop runs every task it holds, and the database and the
\* callback answer: a dispatch that can take a step takes one
CloseFairness ==
    \A t \in 1..MaxFrames :
        WF_vars(/\ t \in DOMAIN tasks
                /\ \/ Raises(t) \/ Start(t) \/ CommitReturns(t)
                   \/ RefreshReturns(t) \/ FanoutReturns(t)
                   \/ LookupReturns(t))

CloseSpec == CloseInit /\ [][CloseNext]_vars /\ CloseFairness

(***************************************************************************)
(* ShutdownSpec: the ingest connection until the process is shut down.     *)
(***************************************************************************)
ShutdownNext ==
    \/ Receive
    \/ Shutdown
    \/ \E t \in DOMAIN tasks : Start(t)
    \/ \E t \in DOMAIN tasks : LookupReturns(t)
    \/ \E t \in DOMAIN tasks : CommitReturns(t)
    \/ \E t \in DOMAIN tasks : RefreshReturns(t)
    \/ \E t \in DOMAIN tasks : FanoutReturns(t)
    \/ \E t \in DOMAIN tasks : Raises(t)

ShutdownSpec == CloseInit /\ [][ShutdownNext]_vars

(***************************************************************************)
(* FramingSpec: data_received alone, with its calls counted.               *)
(***************************************************************************)
FramingNext == ReceiveSegment

FramingSpec == Init /\ [][FramingNext]_vars

(***************************************************************************)
(* HubSpec: the subscription hub, its endpoints and broadcasts; no ingest  *)
(* traffic.                                                                *)
(***************************************************************************)
QuietInit == Init /\ script = <<>>

HubSpec == QuietInit /\ [][HubNext]_vars

(***************************************************************************)
(* HubLiveSpec: HubSpec with the event loop's scheduling: a task that is   *)
(* waiting for the lock is resumed once the lock is free.                  *)
(***************************************************************************)
HubFairness ==
    /\ \A s \in Sinks : WF_vars(EpCritical(s))
    /\ \A b \in Broadcasts : WF_vars(BcSnapshot(b)) /\ WF_vars(BcDisconnect(b))

HubLiveSpec == QuietInit /\ [][HubNext]_vars /\ HubFairness

(***************************************************************************)
(* DatongSpec: the timestamp codec; no connection, no hub traffic.         *)
(***************************************************************************)
DatongInit == IngestInit /\ script = <<>> /\ HubInit /\ StampInit

DatongNext == EncodeStamp \/ DecodeStamp \/ ParseStamped

DatongSpec == DatongInit /\ [][DatongNext]_vars

(***************************************************************************)
(* FrameSpec: the reference encoder and the parser on one frame at a time; *)
(* no connection, no hub traffic.                                          *)
(***************************************************************************)
FrameNext == EncodeFrame \/ ParseFrame \/ ForgetFrame

FrameSpec == QuietInit /\ [][FrameNext]_vars

(***************************************************************************)
(* Properties of the ingest connection.                                    *)
(***************************************************************************)
Range(s) == {s[i] : i \in DOMAIN s}

\* the 149-byte units of a byte sequence, in order; leftover bytes are no unit
FramesOf(bytes) ==
    [k \in 1..(Len(bytes) \div MSG_LENGTH) |->
        SubSeq(bytes, (k - 1) * MSG_LENGTH + 1, k * MSG_LENGTH)]

\* the frames the tasks were created with, in creation order
Dispatched == [k \in DOMAIN tasks |-> tasks[k].data]

\* what the rejection rules say of a frame, from its bytes and the devices
\* as registered
RejectedByRules(data) ==
    \/ ~validate_header(data)
    \/ ~validate_crc(data)
    \/ LET found == {d \in DeviceIds : InitDevices[d].device_key = extract_device_key(data)}
       IN  \/ found = {}
           \/ \E d \in found :
                 \/ ~InitDevices[d].enabled
                 \/ ~PayloadCrcOk(Decrypted(data, InitDevices[d].passphrase))

\* every 149-byte unit a connection can carry
Units ==
    {u : u \in UNION {Range(FramesOf(WireFrom(sc, g, 1))) :
                         sc \in Scripts, g \in 0..MaxFrames}}

\* the units the rules reject
RejectedUnits == {u \in Units : RejectedByRules(u)}

Rejected(data) == data \in RejectedUnits

\* C1: the Position rows of one connection are committed in the order their
\* frames were received: a later frame's row never precedes an earlier one's.
PersistedInReceiveOrder ==
    \A i, j \in DOMAIN committed : i < j => committed[i] < committed[j]

\* C2: after any calls of data_received the buffer holds fewer than 149 bytes
\* and the number of frames dispatched is floor(bytes received / 149).
BufferBelowFrame ==
    /\ Len(buffer) < MSG_LENGTH
    /\ Len(tasks) = received \div MSG_LENGTH
    /\ Len(buffer) = received % MSG_LENGTH

\* 148 bytes received: nothing dispatched, all 148 buffered
Buffered148 == received = 148 /\ tasks = <<>> /\ Len(buffer) = 148

\* C3: the frames dispatched are the 149-byte units of the bytes received,
\* whatever the segments were; a frame is dispatched once, and not before the
\* segment that completes it.
DispatchedIsStreamFramed == Dispatched = FramesOf(Stream)

\* one frame that came in three segments, dispatched once
ThreeSegmentsOneFrame ==
    /\ segments = 3
    /\ received = MSG_LENGTH
    /\ Len(tasks) = 1
    /\ tasks[1].data = FrameOf[script[1]]

\* C4: tasks are created in the order of the frames in the stream: a call of
\* data_received keeps the tasks there are and appends the tasks of the
\* frames it completes, the earlier frame first.
DispatchedInOrder ==
    [][ /\ Len(tasks') >= Len(tasks)
        /\ \A k \in DOMAIN tasks : tasks'[k].data = tasks[k].data
        /\ \A k \in (Len(tasks) + 1)..Len(tasks') :
              tasks'[k].data = FramesOf(Wire)[k] ]_vars

\* two different frames that came in one segment, the first dispatched first
TwoFramesOneSegment ==
    /\ segments = 1
    /\ Len(tasks) = 2
    /\ tasks[1].data # tasks[2].data
    /\ tasks[1].data = FrameOf[script[1]]
    /\ tasks[2].data = FrameOf[script[2]]

\* C5: a dispatched frame has at most one Position row; a frame the rules
\* reject (header, outer CRC, unknown or disabled device, inner CRC) has no
\* row, sets no last_seen_at and is not published.
RejectedLeavesNoTrace ==
    /\ Len(positions) = Len(committed)
    /\ \A i, j \in DOMAIN committed : i # j => committed[i] # committed[j]
    /\ \A t \in DOMAIN tasks :
          Rejected(tasks[t].data) =>
             /\ t \notin Range(committed)
             /\ tasks[t].seen = Null
             /\ tasks[t].published = <<>>
    /\ \A d \in DOMAIN devices :
          /\ devices[d].device_key = InitDevices[d].device_key
          /\ devices[d].enabled = InitDevices[d].enabled
          /\ devices[d].passphrase = InitDevices[d].passphrase
    /\ \A d \in DOMAIN devices :
          devices[d].last_seen_at # Null =>
             \E t \in Range(committed) :
                /\ tasks[t].seen = devices[d].last_seen_at
                /\ tasks[t].device = Some(d)
                /\ ~Rejected(tasks[t].data)

\* a rejected frame and an accepted one have both run to their end
OneRejectedOneAccepted ==
    /\ Len(tasks) = 2
    /\ \A t \in DOMAIN tasks : tasks[t].pc = "done"
    /\ \E t \in DOMAIN tasks :
          Rejected(tasks[t].data) /\ tasks[t].outcome = "DeviceDisabled"
    /\ \E t \in DOMAIN tasks : tasks[t].outcome = "Accepted"
    /\ Len(positions) = 1

(***************************************************************************)
(* Properties of the subscription hub.                                     *)
(***************************************************************************)
\* the forward-index set of a device
Forward(d) ==
    IF d \in DOMAIN device_subscriptions THEN device_subscriptions[d] ELSE {}

\* the reverse-index set of a sink
Reverse(s) ==
    IF s \in DOMAIN websocket_devices THEN websocket_devices[s] ELSE {}

Untracked(s) ==
    /\ \A d \in DOMAIN device_subscriptions : s \notin device_subscriptions[d]
    /\ s \notin DOMAIN websocket_devices
    /\ s \notin connections

\* C6: the two indices agree in every state: s is in device_subscriptions[d]
\* iff d is in websocket_devices[s]; a sink in the forward index has a
\* reverse-index entry.
IndicesAgree ==
    /\ \A s \in Sinks, d \in HubDevices : s \in Forward(d) <=> d \in Reverse(s)
    /\ \A d \in DOMAIN device_subscriptions :
          device_subscriptions[d] \subseteq DOMAIN websocket_devices

\* both sinks subscribed to a device, one of them to it alone, while a
\* broadcast is sending
BothSubscribedWhileSending ==
    /\ Forward(7) = Sinks
    /\ Reverse("s1") = {7}
    /\ \E b \in Broadcasts : bc[b].pc = "send"

\* the step in which a disconnect(s) does its work and returns
DisconnectCompletes(s) ==
    \/ /\ ep[s].pc = "wait"
       /\ ep[s].op = "disconnect"
       /\ ep'[s].pc = "ended"
    \/ \E b \in Broadcasts :
          /\ bc[b].pc = "wait"
          /\ bc[b].op = "disconnect"
          /\ bc[b].disconnected[bc[b].cleanup] = s
          /\ bc'[b] # bc[b]

\* C7: when disconnect(s) completes, s is in no forward-index set, has no
\* reverse-index entry and is not in connections, and the subscriptions of
\* every other sink are as they were.
DisconnectDetaches ==
    [][ \A s \in Sinks :
          DisconnectCompletes(s) =>
             /\ Untracked(s)'
             /\ \A o \in Sinks \ {s} :
                   /\ (o \in connections') <=> (o \in connections)
                   /\ (o \in DOMAIN websocket_devices')
                         <=> (o \in DOMAIN websocket_devices)
                   /\ Reverse(o)' = Reverse(o)
                   /\ \A d \in HubDevices :
                         (o \in Forward(d)') <=> (o \in Forward(d)) ]_vars

\* s1 has been disconnected and is tracked nowhere; s2 keeps its subscription
DetachedBesideSubscribed ==
    /\ "s1" \in detached
    /\ Untracked("s1")
    /\ "s2" \in connections
    /\ Reverse("s2") = {7}
    /\ Forward(7) = {"s2"}

\* C8: a broadcast for device d calls send_text on exactly the sinks that
\* were in the forward-index set of d when the snapshot was taken under the
\* lock, on each once, and on no other sink.
SendsToSnapshotOnly ==
    [][ \A b \in Broadcasts :
          /\ (bc[b].pc = "wait" /\ bc[b].op = "snapshot" /\ bc'[b] # bc[b]) =>
                bc'[b].subscribers = Forward(bc[b].device_id)
          /\ ~(bc[b].pc = "wait" /\ bc[b].op = "snapshot") =>
                bc'[b].subscribers = bc[b].subscribers
          /\ Len(bc'[b].attempted) # Len(bc[b].attempted) =>
                /\ Len(bc'[b].attempted) = Len(bc[b].attempted) + 1
                /\ SubSeq(bc'[b].attempted, 1, Len(bc[b].attempted)) = bc[b].attempted
                /\ bc'[b].attempted[Len(bc'[b].attempted)] \in bc'[b].subscribers
                /\ bc'[b].attempted[Len(bc'[b].attempted)] \notin Range(bc[b].attempted)
          /\ (bc'[b].pc = "ended" /\ bc[b].pc # "ended") =>
                Range(bc'[b].attempted) = bc'[b].subscribers ]_vars

\* a broadcast for device 7 has ended having sent to s1 only; s2 is
\* subscribed to device 8 only
SentToSubscriberOf7Only ==
    \E b \in Broadcasts :
       /\ bc[b].pc = "ended"
       /\ bc[b].device_id = 7
       /\ bc[b].attempted = <<"s1">>
       /\ Reverse("s2") = {8}
       /\ "s2" \in connections

\* C9: a failed send keeps no other sink of the snapshot from its send
\* attempt, and every sink whose send failed is in no index once the
\* broadcast has completed.
FailedSendIsolated ==
    \A b \in Broadcasts :
       bc[b].pc = "ended" =>
          /\ Range(bc[b].attempted) = bc[b].subscribers
          /\ Range(bc[b].disconnected) \subseteq Range(bc[b].attempted)
          /\ \A s \in Range(bc[b].disconnected) : Untracked(s)

\* the first of two sends failed, the second was attempted all the same and
\* went through; the broadcast has completed
FirstFailedSecondSent ==
    \E b \in Broadcasts :
       /\ bc[b].pc = "ended"
       /\ Len(bc[b].attempted) = 2
       /\ bc[b].disconnected = <<bc[b].attempted[1]>>
       /\ bc[b].attempted[2] \in Forward(bc[b].device_id)

\* C10: no task holds the hub lock while it is suspended in websocket I/O
\* (accept, close, receive_text, send_text).
NoLockAcrossIO ==
    /\ \A s \in Sinks :
          ep[s].pc \in {"accept", "close", "receive", "reply"} => lock # HeldByEp(s)
    /\ \A b \in Broadcasts : bc[b].pc = "send" => lock # HeldByBc(b)

\* while a broadcast is in send_text another task has had the lock: the
\* forward index is no longer what the broadcast's snapshot was
IndexChangedWhileSending ==
    \E b \in Broadcasts :
       /\ bc[b].pc = "send"
       /\ bc[b].subscribers = Sinks
       /\ Forward(bc[b].device_id) # bc[b].subscribers
       /\ ~lock.held

(***************************************************************************)
(* Properties of the Datong codec.                                         *)
(***************************************************************************)
\* C18: a valid date-time of the years 1980..2107, encoded by the beacon and
\* decoded by the parser, comes back with the same year, month, day, hour,
\* minute and second.
DatongRoundTrip ==
    (stamp_src = "beacon" /\ stamp_out # Null) =>
       /\ stamp_out[1].year = stamp_in.year
       /\ stamp_out[1].month = stamp_in.month
       /\ stamp_out[1].day = stamp_in.day
       /\ stamp_out[1].hour = stamp_in.hour
       /\ stamp_out[1].minute = stamp_in.minute
       /\ stamp_out[1].second = stamp_in.second

\* the last second of 2107 has made the round trip
LastSecondRoundTrip ==
    /\ stamp_src = "beacon"
    /\ stamp_in = DateTime(2107, 12, 31, 23, 59, 59)
    /\ stamp_ts # Null
    /\ stamp_out = Some(DateTime(2107, 12, 31, 23, 59, 59))

\* a field of five bytes off the wire that no date-time can have
OutOfRange(f) ==
    \/ f.month = 0
    \/ f.month > 12
    \/ f.day = 0
    \/ f.day > DaysInMonth(f.year, f.month)
    \/ f.hour > 23
    \/ f.minute > 59
    \/ f.second > 59

\* C19: decoding five bytes always returns a date-time; when a field is out
\* of range (month 0 or above 12, day 0 or not in the month, hour above 23,
\* minute or second above 59) it is 1980-01-01T00:00:00, and a frame that
\* carries the five bytes still parses, with that timestamp.
DecodeNeverRaises ==
    /\ (stamp_ts # Null /\ stamp_out = Null) => ENABLED DecodeStamp
    /\ stamp_out # Null =>
          ValidDateTime(stamp_out[1].year, stamp_out[1].month, stamp_out[1].day,
                        stamp_out[1].hour, stamp_out[1].minute, stamp_out[1].second)
    /\ (stamp_src = "wire" /\ stamp_out # Null /\ OutOfRange(stamp_in)) =>
          stamp_out = Some(Epoch)
    /\ stamp_msg # Null =>
          /\ stamp_msg[1] # Null
          /\ stamp_msg[1][1].timestamp = stamp_out[1]

\* 29 February 2023 at 24:00:60 came off the wire in a frame: the decoder
\* returned the epoch and the frame parsed
Feb29DecodedAsEpoch ==
    /\ stamp_src = "wire"
    /\ stamp_in = DateTime(2023, 2, 29, 24, 0, 60)
    /\ stamp_out = Some(Epoch)
    /\ stamp_msg # Null
    /\ stamp_msg[1] # Null
    /\ stamp_msg[1][1].timestamp = Epoch

\* C20 as stated: 1980-01-01T00:00:00 is encoded as 08 00 00 00 00, and
\* decoding those bytes returns that date-time.
EpochEncodesAs0800 ==
    /\ (stamp_src = "beacon" /\ stamp_in = Epoch /\ stamp_ts # Null) =>
          stamp_ts = Some(<<8, 0, 0, 0, 0>>)
    /\ (stamp_ts = Some(<<8, 0, 0, 0, 0>>) /\ stamp_out # Null) =>
          stamp_out = Some(Epoch)

\* C20, amended: 1980-01-01T00:00:00 is encoded as 08 80 00 00 00 (the low
\* bit of month 1 is bit 7 of byte 1); decoding those bytes returns that
\* date-time, and so does decoding 08 00 00 00 00, whose month field is 0.
EpochEncodesAs0880 ==
    /\ (stamp_src = "beacon" /\ stamp_in = Epoch /\ stamp_ts # Null) =>
          stamp_ts = Some(<<8, 128, 0, 0, 0>>)
    /\ (stamp_ts \in {Some(<<8, 128, 0, 0, 0>>), Some(<<8, 0, 0, 0, 0>>)}
           /\ stamp_out # Null) =>
          stamp_out = Some(Epoch)

\* the epoch has been encoded and decoded
EpochRoundTrip ==
    /\ stamp_src = "beacon"
    /\ stamp_in = Epoch
    /\ stamp_ts = Some(<<8, 128, 0, 0, 0>>)
    /\ stamp_out = Some(Epoch)

(***************************************************************************)
(* Properties of the dispatch of a frame.                                  *)
(***************************************************************************)
\* the registered devices whose device_key is the one in the frame
DevicesOf(data) ==
    {d \in DeviceIds : InitDevices[d].device_key = extract_device_key(data)}

\* C11: a frame whose device_key matches no device is dropped before any
\* decryption: it has no Position row and no publish, get_cipher is not
\* called for it, and the step that drops it leaves the cipher cache as it is
\* (while only such frames have come, the cache is empty).
UnknownDeviceNoCipher ==
    [][ /\ \A t \in DOMAIN tasks' :
             DevicesOf(tasks'[t].data) = {} =>
                /\ t \notin Range(committed')
                /\ tasks'[t].position = Null
                /\ tasks'[t].published = <<>>
                /\ ~tasks'[t].ciphered
                /\ (t \in DOMAIN tasks /\ tasks'[t] # tasks[t]) =>
                      cipher_cache' = cipher_cache
        /\ (\A t \in DOMAIN tasks' : DevicesOf(tasks'[t].data) = {}) =>
              cipher_cache' = <<>> ]_vars

\* a frame of an unknown device has been dropped after a frame of device 7
\* was accepted: the cache holds the cipher of device 7 and nothing else
UnknownAfterAccepted ==
    /\ Len(tasks) = 2
    /\ tasks[1].outcome = "Accepted"
    /\ tasks[2].outcome = "UnknownDevice"
    /\ validate_header(tasks[2].data)
    /\ extract_device_key(tasks[2].data) = KEY_UNKNOWN
    /\ DOMAIN cipher_cache = {PASS_FRED}
    /\ Len(positions) = 1

\* C12: a frame whose device is found but is not enabled is dropped: no
\* Position row is written for it or for its device, the device's
\* last_seen_at stays as it was, and nothing is published.
DisabledDeviceDropped ==
    /\ \A t \in DOMAIN tasks :
          (\E d \in DevicesOf(tasks[t].data) : ~devices[d].enabled) =>
             /\ t \notin Range(committed)
             /\ tasks[t].position = Null
             /\ tasks[t].seen = Null
             /\ tasks[t].published = <<>>
             /\ tasks[t].pc = "done" =>
                   tasks[t].outcome \in {"BadHeader", "DeviceDisabled", "LookupFailed"}
    /\ \A d \in DeviceIds :
          ~devices[d].enabled =>
             /\ devices[d].last_seen_at = InitDevices[d].last_seen_at
             /\ \A i \in DOMAIN positions : positions[i].device_id # d

\* two frames of the disabled device 9 have both been dropped
TwoDisabledDropped ==
    /\ Len(tasks) = 2
    /\ \A t \in DOMAIN tasks :
          /\ extract_device_key(tasks[t].data) = KEY_9
          /\ tasks[t].outcome = "DeviceDisabled"
    /\ positions = <<>>
    /\ devices[9].last_seen_at = Null

\* the units whose CRC-16 over bytes [0..147) is the inverse of the
\* little-endian value at [147..149)
OuterCrcUnits ==
    {u \in Units : 65535 - CRC16(u, 0, 147) = At(u, 147) + 256 * At(u, 148)}

\* the units and devices such that the payload, decrypted with the device's
\* passphrase, has a CRC-16 over [4..96) that is the inverse of the value
\* at [2..4)
InnerCrcPairs ==
    {p \in {<<u, d>> : u \in Units, d \in DeviceIds} :
        LET payload == decrypt_bytes(Blowfish(derive_key(InitDevices[p[2]].passphrase)),
                                     Slice(p[1], 51, 147))
        IN  65535 - CRC16(payload, 4, 92) = At(payload, 2) + 256 * At(payload, 3)}

\* C13: every frame with a Position row passed the outer CRC check and, under
\* the passphrase of the device looked up, the inner CRC check; a frame that
\* fails either has no row.
RowsPassedBothCrcs ==
    /\ \A i \in DOMAIN committed :
          /\ tasks[committed[i]].data \in OuterCrcUnits
          /\ positions[i].device_id \in DevicesOf(tasks[committed[i]].data)
          /\ <<tasks[committed[i]].data, positions[i].device_id>> \in InnerCrcPairs
          /\ positions[i].raw_data = tasks[committed[i]].data
    /\ \A t \in DOMAIN tasks :
          (\/ tasks[t].data \notin OuterCrcUnits
           \/ \E d \in DevicesOf(tasks[t].data) :
                 <<tasks[t].data, d>> \notin InnerCrcPairs) =>
             /\ t \notin Range(committed)
             /\ tasks[t].position = Null

\* a frame of device 8, whose server-side passphrase is not the beacon's, was
\* deciphered and dropped at the inner CRC; a frame of device 7 has its row
WrongPassphraseNoRow ==
    /\ Len(tasks) = 2
    /\ extract_device_key(tasks[1].data) = KEY_8
    /\ tasks[1].data \in OuterCrcUnits
    /\ tasks[1].ciphered
    /\ tasks[1].outcome = "ParseFailed"
    /\ tasks[2].outcome = "Accepted"
    /\ committed = <<2>>

\* the outcomes of a task that ended in the except clause
FailedOutcomes == {"LookupFailed", "CommitFailed", "RefreshFailed", "FanoutFailed"}

\* C14: whatever frames were rejected, the transport stays open, the buffer
\* is the part of the stream after the frames dispatched, every 149-byte unit
\* of the stream is dispatched, the bytes still to come can be delivered, and
\* a frame the rules accept that has run to its end without an exception was
\* accepted and has its row.
RejectedFrameLeavesConnection ==
    /\ transport = "open"
    /\ buffer = SubSeq(Stream, Len(tasks) * MSG_LENGTH + 1, received)
    /\ Dispatched = FramesOf(Stream)
    /\ received < Len(Wire) => ENABLED Receive
    /\ \A t \in DOMAIN tasks :
          (/\ tasks[t].pc = "done"
           /\ ~Rejected(tasks[t].data)
           /\ tasks[t].outcome \notin FailedOutcomes) =>
             /\ tasks[t].outcome = "Accepted"
             /\ t \in Range(committed)

\* a frame with a bad outer CRC was dropped, and the frame after it on the
\* same connection was accepted
BadCrcThenAccepted ==
    /\ Len(tasks) = 2
    /\ tasks[1].data = FrameOf["badcrc"]
    /\ tasks[1].outcome = "ParseFailed"
    /\ ~tasks[1].ciphered
    /\ tasks[2].outcome = "Accepted"
    /\ committed = <<2>>
    /\ buffer = <<>>
    /\ transport = "open"

\* C15: an exception of the lookup, the commit, the refresh or the fan-out
\* ends its task and nothing else: the step leaves the other tasks, the
\* buffer, the tables and the transport as they were, so the connection stays
\* open and the other frames go on; a frame whose lookup or commit failed
\* has no row and no publish.
ExceptionsAreCaught ==
    [][ /\ transport' = "open"
        /\ \A t \in DOMAIN tasks :
              (tasks[t].pc # "done" /\ tasks'[t].outcome \in FailedOutcomes) =>
                 /\ tasks'[t].pc = "done"
                 /\ Len(tasks') = Len(tasks)
                 /\ \A u \in DOMAIN tasks \ {t} : tasks'[u] = tasks[u]
                 /\ UNCHANGED <<buffer, received, transport, positions,
                                committed, devices, cipher_cache>>
        /\ \A t \in DOMAIN tasks' :
              tasks'[t].outcome \in {"LookupFailed", "CommitFailed"} =>
                 /\ t \notin Range(committed')
                 /\ tasks'[t].published = <<>> ]_vars

\* the commit of the first frame failed and the second frame was accepted
CommitFailedThenAccepted ==
    /\ Len(tasks) = 2
    /\ tasks[1].outcome = "CommitFailed"
    /\ tasks[2].outcome = "Accepted"
    /\ committed = <<2>>
    /\ tasks[1].published = <<>>
    /\ transport = "open"

\* C16: last_seen_at is monotonic per device: each committed update is
\* greater than or equal to the value committed before it (the clock never
\* goes back).
LastSeenMonotonic ==
    [][ \A d \in DeviceIds :
           (devices[d].last_seen_at # Null /\ devices'[d].last_seen_at # Null) =>
              devices'[d].last_seen_at[1] >= devices[d].last_seen_at[1] ]_vars

\* C17: once every dispatch of the connection has committed (or was
\* dropped), the last_seen_at of a device is the greatest of the timestamps
\* the committed dispatches for it read.
FinalLastSeenIsMax ==
    (/\ received = Len(Wire)
     /\ \A t \in DOMAIN tasks : tasks[t].pc \in {"refresh", "fanout", "done"}) =>
       \A d \in DeviceIds :
          LET seen == {tasks[t].seen[1] : t \in {u \in Range(committed) :
                                                   tasks[u].device = Some(d)}}
          IN  seen # {} =>
                 /\ devices[d].last_seen_at # Null
                 /\ \A v \in seen : devices[d].last_seen_at[1] >= v

(***************************************************************************)
(* Properties of the frame codec.                                          *)
(***************************************************************************)
\* the frame on its way is one the reference encoder built, unaltered
FromEncoder ==
    frame_in # Null /\ frame_sim.bytes = <<>> /\ frame_sim.len = MSG_LENGTH

\* parse was called with the passphrase the frame was encrypted with
SamePassphrase == frame_out # Null /\ frame_out[1].passphrase = frame_sim.passphrase

\* C21: a frame built by the reference encoder with passphrase K and parsed
\* with K passes the header check and both CRC checks, and the message parse
\* returns has the 149 encoded bytes as raw_data and the encoded device key,
\* sequence number, battery, temperature and satellites, and no heading.
EncoderParserRoundTrip ==
    (FromEncoder /\ SamePassphrase) =>
        /\ Len(frame_in[1]) = 149
        /\ validate_header(frame_in[1])
        /\ validate_crc(frame_in[1])
        /\ PayloadCrcOk(Decrypted(frame_in[1], frame_sim.passphrase))
        /\ frame_out[1].msg # Null
        /\ LET msg == frame_out[1].msg[1]
           IN  /\ msg.raw_data = frame_in[1]
               /\ msg.device_key = UnU32BE(frame_sim.device_key)
               /\ msg.sequence = (frame_sim.sequence + 1) % 256
               /\ msg.battery = frame_sim.battery
               /\ msg.temperature = 20
               /\ msg.satellites = 8
               /\ msg.heading = Null

\* a frame of device key 8 with passphrase "wrong", sequence number wrapped
\* to 0 and battery 255, has been parsed with "wrong"
WrappedSequenceParsed ==
    /\ frame_sim = FrameInput(KEY_8, PASS_WRONG, 255, 50, 255)
    /\ SamePassphrase
    /\ frame_out[1].msg # Null
    /\ frame_out[1].msg[1].sequence = 0
    /\ frame_out[1].msg[1].battery = 255

\* the payload of the frame on its way, decrypted as parse decrypted it
PayloadSeen == Decrypted(frame_in[1], frame_out[1].passphrase)

\* parse returned a message for the frame on its way
FrameParsed == frame_out # Null /\ frame_out[1].msg # Null

\* C22: a payload whose heading field is 0xFFFF is decoded with no heading,
\* and the Position built from it has no heading.
UnknownHeadingIsNull ==
    (FrameParsed /\ UnU16BE(Slice(PayloadSeen, 33, 35)) = 65535) =>
        /\ frame_out[1].msg[1].heading = Null
        /\ frame_out[1].row # Null
        /\ frame_out[1].row[1].heading = Null

\* a frame whose heading field was written as 0xFFFF after it was built has
\* been parsed and its Position built
UnknownHeadingParsed ==
    /\ FrameParsed
    /\ frame_sim.at = 84
    /\ frame_sim.bytes = <<255, 255>>
    /\ UnU16BE(Slice(PayloadSeen, 33, 35)) = 65535
    /\ frame_out[1].row # Null

\* the HDOP field of the payload, in hundredths
HdopSeen == UnU16BE(Slice(PayloadSeen, 42, 44))

\* C23: for a payload whose GPS-valid byte is 1, gps_accuracy follows from
\* the raw HDOP: up to 100 High, then up to 200 Medium, then up to 500 Low,
\* above 500 Poor.
AccuracyFromHdop ==
    (FrameParsed /\ At(PayloadSeen, 44) = 1) =>
        LET accuracy == frame_out[1].msg[1].gps_accuracy
        IN  /\ HdopSeen <= 100 => accuracy = "High"
            /\ (100 < HdopSeen /\ HdopSeen <= 200) => accuracy = "Medium"
            /\ (200 < HdopSeen /\ HdopSeen <= 500) => accuracy = "Low"
            /\ HdopSeen > 500 => accuracy = "Poor"

\* a GPS-valid payload with a raw HDOP of exactly 200 has been decoded
HdopOnMediumLimit ==
    /\ FrameParsed
    /\ At(PayloadSeen, 44) = 1
    /\ HdopSeen = 200
    /\ frame_out[1].msg[1].gps_accuracy = "Medium"

\* C24: for a payload whose GPS-valid byte is not 1, gps_accuracy is the
\* label "NoFix", whatever the HDOP.
InvalidGpsIsNoFix ==
    (FrameParsed /\ At(PayloadSeen, 44) # 1) =>
        frame_out[1].msg[1].gps_accuracy = "NoFix"

(***************************************************************************)
(* The end-to-end scenarios.                                               *)
(***************************************************************************)
\* scenario 1 has run: the connection carried one frame of the reference
\* encoder for enabled device 7 (speed 0, GPS valid, HDOP raw 100), encrypted
\* with the device's passphrase, and its dispatch completed
ScenarioOneDone ==
    /\ script = <<"good">>
    /\ garbage = 0
    /\ Len(tasks) = 1
    /\ tasks[1].outcome = "Accepted"

\* C25 as stated: scenario 1 produces exactly one Position row, with
\* is_moving = false and gps_accuracy = "Medium".
ScenarioOneRowMedium ==
    ScenarioOneDone =>
        /\ Len(positions) = 1
        /\ positions[1].is_moving = FALSE
        /\ positions[1].gps_accuracy = Some("Medium")

\* C25, amended: scenario 1 produces exactly one Position row, with
\* is_moving = false and gps_accuracy = "High" (an HDOP of 1.00 is in the
\* bucket up to and including 1.0).
ScenarioOneRowHigh ==
    ScenarioOneDone =>
        /\ Len(positions) = 1
        /\ positions[1].device_id = 7
        /\ positions[1].hdop = 100
        /\ positions[1].gps_valid
        /\ positions[1].is_moving = FALSE
        /\ positions[1].gps_accuracy = Some("High")

\* scenario 1 has run and its row, of speed 0, is in the positions table
ScenarioOneRowWritten ==
    /\ ScenarioOneDone
    /\ committed = <<1>>
    /\ positions[1].speed = 0
    /\ positions[1].raw_data = GoodFrame

\* fewer than 149 bytes, or byte 0 is not 0x24, or byte 1 is not 0x55
BadHeader(data) ==
    \/ Len(data) < 149
    \/ At(data, 0) # 36
    \/ At(data, 1) # 85

\* C26: validate_header rejects a frame exactly when it has fewer than 149
\* bytes or its byte 0 is not 0x24 or its byte 1 is not 0x55; for such a frame
\* parse returns no message, obtains no cipher, leaves the cipher cache as it
\* was, and no Position is built.
HeaderRejectsExactly ==
    [][ (frame_out = Null /\ frame_out' # Null) =>
           /\ validate_header(frame_in[1]) <=> ~BadHeader(frame_in[1])
           /\ BadHeader(frame_in[1]) =>
                 /\ frame_out'[1].msg = Null
                 /\ ~frame_out'[1].ciphered
                 /\ frame_out'[1].row = Null
                 /\ cipher_cache' = cipher_cache
                 /\ cipher_users' = cipher_users ]_vars

\* a frame whose packet type is 0x54, with both CRCs computed over the frame
\* as it is, got no message and no cipher from a parser that already holds a
\* cipher
WrongPacketTypeRejected ==
    /\ frame_out # Null
    /\ Len(frame_in[1]) = 149
    /\ At(frame_in[1], 0) = 36
    /\ At(frame_in[1], 1) = 84
    /\ validate_crc(frame_in[1])
    /\ frame_out[1].msg = Null
    /\ ~frame_out[1].ciphered
    /\ cipher_cache # <<>>

\* C27: the declared length at offset 2 is checked: a frame whose 16-bit value
\* at bytes [2..4) is not 149 gets no message from parse and no Position,
\* also when its start byte, packet type and both CRCs are valid.
DeclaredLengthChecked ==
    (/\ frame_out # Null
     /\ Len(frame_in[1]) >= 4
     /\ UnU16BE(Slice(frame_in[1], 2, 4)) # 149) =>
        /\ frame_out[1].msg = Null
        /\ frame_out[1].row = Null

(***************************************************************************)
(* The order of the stages of one dispatch.                                *)
(***************************************************************************)
\* C28: the outer CRC of a frame is verified before its device key is
\* extracted and used: no device lookup is made for a frame whose outer CRC
\* does not match.
NoLookupBeforeOuterCrc ==
    \A t \in DOMAIN tasks :
        ~validate_crc(tasks[t].data) =>
            /\ tasks[t].pc # "lookup"
            /\ tasks[t].device = Null

(***************************************************************************)
(* A stray byte on the connection.                                         *)
(***************************************************************************)
\* the 149 bytes that end 148 bytes into frame number t of the script: the
\* stray byte, or the last byte of the frame before, and then all of frame t
\* but its last byte
ShiftedUnit(t) ==
    (IF t = garbage THEN GARBAGE ELSE <<At(FrameOf[script[t - 1]], 148)>>)
    \o Slice(FrameOf[script[t]], 0, 148)

\* C29: no resynchronisation.  With one stray byte before a frame, the frames
\* before it are dispatched as sent; the next candidate frame is the stray
\* byte and the first 148 bytes of the frame after it, and every later one
\* stays shifted by one byte; each of them is rejected at the header check
\* without a lookup; and the last byte sent stays in the buffer.
NoResynchronisation ==
    garbage > 0 =>
        /\ \A t \in DOMAIN tasks :
              IF t < garbage
              THEN tasks[t].data = FrameOf[script[t]]
              ELSE /\ tasks[t].data = ShiftedUnit(t)
                   /\ tasks[t].pc \in {"created", "done"}
                   /\ tasks[t].pc = "done" => tasks[t].outcome = "BadHeader"
                   /\ tasks[t].device = Null
        /\ received = Len(Wire) =>
              /\ Len(tasks) = Len(script)
              /\ buffer = <<At(FrameOf[script[Len(script)]], 148)>>

\* frame-A, a stray byte, frame-B: frame-A has its row, the second candidate
\* frame was rejected, and the last byte of frame-B is in the buffer
FrameAStrayByteFrameB ==
    /\ script = <<"good", "good">>
    /\ garbage = 2
    /\ received = 299
    /\ Len(tasks) = 2
    /\ tasks[1].outcome = "Accepted"
    /\ committed = <<1>>
    /\ tasks[2].data = <<0>> \o Slice(GoodFrame, 0, 148)
    /\ tasks[2].outcome = "BadHeader"
    /\ buffer = <<At(GoodFrame, 148)>>

(***************************************************************************)
(* The cipher cache of the one parser all connections share.  parse has no *)
(* suspension point, so the dispatch tasks' calls of it happen one after   *)
(* another, in any order.                                                  *)
(***************************************************************************)
\* C30: the cipher cache is keyed by the passphrase's content: a call creates
\* an entry only for the passphrase it was given and only when that is
\* absent, no entry is ever replaced or removed, every entry is the cipher of
\* its passphrase's key, and every device key parsed with a passphrase used
\* the one entry of that passphrase.
CacheKeyedByPassphrase ==
    [][ /\ \A p \in DOMAIN cipher_cache :
              /\ p \in DOMAIN cipher_cache'
              /\ cipher_cache'[p] = cipher_cache[p]
        /\ \A p \in DOMAIN cipher_cache' :
              /\ cipher_cache'[p] = Blowfish(derive_key(p))
              /\ p \notin DOMAIN cipher_cache =>
                    /\ frame_out = Null
                    /\ frame_out' # Null
                    /\ frame_out'[1].ciphered
                    /\ frame_out'[1].passphrase = p
        /\ \A p \in Passphrases :
              cipher_users'[p] # {} <=> p \in DOMAIN cipher_cache' ]_vars

\* frames of two device keys have been deciphered with the same passphrase,
\* and the cache holds the one cipher of that passphrase and no other
TwoDevicesOneCipher ==
    /\ cipher_users[PASS_FRED] =
          {extract_device_key(build_message(Beacon(KEY_7, 1), 0, 100, BeaconTime)),
           extract_device_key(build_message(Beacon(KEY_8, 1), 0, 100, BeaconTime))}
    /\ DOMAIN cipher_cache = {PASS_FRED}
    /\ frame_out # Null
    /\ frame_out[1].msg # Null

(***************************************************************************)
(* Properties of the hub's operations on sinks that are not attached, and  *)
(* of the entries they leave behind.                                       *)
(***************************************************************************)
\* C38: no device id of the forward index maps to an empty set of sinks: the
\* entry whose last subscriber is removed, by unsubscribe or by disconnect,
\* is deleted.
NoEmptyForwardEntry ==
    \A d \in DOMAIN device_subscriptions : device_subscriptions[d] # {}

\* the endpoint of s has the lock for op and completes it
OpCompletes(s, op) ==
    /\ ep[s].pc = "wait"
    /\ ep[s].op = op
    /\ ep'[s].pc # "wait"

\* C39: subscribe and unsubscribe of a sink that has no reverse-index entry
\* (already disconnected) leave the forward index, the reverse index and the
\* connections set as they were, and a sink whose disconnect has completed is
\* in no index from then on.
UnattachedSubscribeChangesNothing ==
    [][ /\ \A s \in Sinks :
              ((OpCompletes(s, "subscribe") \/ OpCompletes(s, "unsubscribe"))
                 /\ s \notin DOMAIN websocket_devices) =>
                    Hub' = Hub
        /\ \A s \in detached' : Untracked(s)' ]_vars

\* a sink that a broadcast disconnected after a failed send asks for the
\* lock to subscribe to a device
DetachedSinkSubscribes ==
    \E s \in Sinks :
        /\ s \in detached
        /\ Untracked(s)
        /\ ep[s].pc = "wait"
        /\ ep[s].op = "subscribe"
        /\ ep[s].ids # {}

\* C40: disconnect is idempotent: disconnect of a sink whose disconnect has
\* completed before leaves the forward index, the reverse index and the
\* connections set as they were.
DisconnectIdempotent ==
    [][ \A s \in Sinks :
           (DisconnectCompletes(s) /\ s \in detached) => Hub' = Hub ]_vars

\* a sink was disconnected twice, by the broadcast whose send to it failed
\* and by its own endpoint, and a forward-index entry is still there
DisconnectedTwice ==
    \E s \in Sinks, b \in Broadcasts :
        /\ ep[s].pc = "ended"
        /\ s \in detached
        /\ bc[b].pc = "ended"
        /\ s \in Range(bc[b].disconnected)
        /\ DOMAIN device_subscriptions # {}

\* broadcast b calls send_text on sink w in this step
SendStarts(b, w) ==
    /\ Len(bc'[b].attempted) = Len(bc[b].attempted) + 1
    /\ bc'[b].target = w

\* C36 as stated: no send is attempted on a sink after disconnect of that
\* sink has completed.
NoSendAfterDisconnect ==
    [][ \A b \in Broadcasts, w \in Sinks :
           SendStarts(b, w) => w \notin detached ]_vars

\* C36, amended: a broadcast sends only to sinks of its snapshot, and its
\* snapshot holds no sink whose disconnect had completed when it was taken;
\* a send on a sink that was disconnected after the snapshot can happen.
NoSendAfterEarlierDisconnect ==
    [][ \A b \in Broadcasts :
           /\ (bc[b].pc = "wait" /\ bc[b].op = "snapshot" /\ bc'[b] # bc[b]) =>
                 bc'[b].subscribers \cap detached = {}
           /\ \A w \in Sinks :
                 SendStarts(b, w) => w \in bc'[b].subscribers ]_vars

\* a broadcast is in send_text on a sink whose endpoint has completed its
\* disconnect and ended
SendingToDetachedSink ==
    \E b \in Broadcasts :
        /\ bc[b].pc = "send"
        /\ bc[b].target \in detached
        /\ ep[bc[b].target].pc = "ended"
        /\ Untracked(bc[b].target)

\* C35: the heading of the Position built for a frame is null if and only if
\* the frame's raw heading field is 0xFFFF; a raw heading of 0 is stored as
\* the number 0.
HeadingNullOnlyIfUnknown ==
    (FrameParsed /\ frame_out[1].row # Null) =>
        LET heading_raw == UnU16BE(Slice(PayloadSeen, 33, 35))
        IN  /\ frame_out[1].row[1].heading = Null <=> heading_raw = 65535
            /\ heading_raw = 0 => frame_out[1].row[1].heading = Some(0)

(***************************************************************************)
(* Publishing to the hub.                                                 *)
(***************************************************************************)
\* the rows of the positions table that the dispatch t committed
RowsOf(t) == {i \in DOMAIN committed : committed[i] = t}

\* C33: on_position is called only for a frame that parsed, and only after
\* that frame's Position row and last_seen_at update were committed: every
\* publish has exactly one committed row, of the same device id, and a
\* dispatch publishes at most once.
PublishAfterCommit ==
    \A t \in DOMAIN tasks :
        /\ Len(tasks[t].published) <= 1
        /\ tasks[t].published # <<>> =>
              /\ tasks[t].position # Null
              /\ validate_header(tasks[t].data) /\ validate_crc(tasks[t].data)
              /\ Cardinality(RowsOf(t)) = 1
              /\ \A i \in RowsOf(t) :
                    /\ positions[i].device_id = tasks[t].published[1]
                    /\ positions[i].raw_data = tasks[t].data
              /\ devices[tasks[t].published[1]].last_seen_at # Null

\* two frames of device 7 were committed and published, each once
TwoPublished ==
    /\ Len(tasks) >= 2
    /\ tasks[1].published = <<7>>
    /\ tasks[2].published = <<7>>
    /\ tasks[1].outcome = "Accepted"
    /\ Len(positions) = 2

(***************************************************************************)
(* Progress of the hub.                                                    *)
(***************************************************************************)
\* C31: when the receive loop of an attached sink ends, by WebSocketDisconnect
\* or by any other exception, disconnect is called for the sink and the sink
\* is eventually in no index of the hub: an endpoint that has ended has its
\* sink in no index, and an endpoint that called disconnect ends.
EndedSinkIsDetached ==
    \A s \in Sinks :
        /\ [](ep[s].pc = "ended" => Untracked(s))
        /\ (ep[s].pc = "wait" /\ ep[s].op = "disconnect")
              ~> (ep[s].pc = "ended" /\ Untracked(s))

\* the receive loop of a sink that was subscribed to a device has ended and
\* its disconnect has completed, while the other sink is still subscribed
LoopEndedAndDetached ==
    \E s \in Sinks :
        /\ ep[s].pc = "ended"
        /\ s \in detached
        /\ Untracked(s)
        /\ \E o \in Sinks \ {s} : Reverse(o) # {}

\* C37: the hub never deadlocks on its lock: no task is suspended with the
\* lock held, so none asks for it while holding it, and every task that asks
\* for the lock (connect, subscribe, unsubscribe, disconnect, the snapshot of
\* a broadcast and the disconnects a broadcast makes for failed sinks)
\* eventually gets it.
LockAlwaysObtained ==
    /\ [](lock = Free)
    /\ \A s \in Sinks : ep[s].pc = "wait" ~> ep[s].pc # "wait"
    /\ \A b \in Broadcasts : bc[b].pc = "wait" ~> bc[b].pc # "wait"

\* a broadcast asks for the lock to disconnect a sink whose send failed,
\* while that sink's endpoint asks for it too
BroadcastAndEndpointWait ==
    \E b \in Broadcasts :
        /\ bc[b].pc = "wait"
        /\ bc[b].op = "disconnect"
        /\ ep[bc[b].disconnected[bc[b].cleanup]].pc = "wait"

(***************************************************************************)
(* The end of an ingest connection.                                        *)
(***************************************************************************)
\* dispatch t has ended in one of its outcomes: its Position is committed
\* and published, or its frame was dropped
RanToOutcome(t) ==
    /\ t \in DOMAIN tasks
    /\ tasks[t].pc = "done"
    /\ tasks[t].outcome \in
          {"Accepted", "BadHeader", "ParseFailed", "UnknownDevice",
           "DeviceDisabled", "LookupFailed", "CommitFailed",
           "RefreshFailed", "FanoutFailed"}
    /\ tasks[t].outcome = "Accepted" =>
          /\ RowsOf(t) # {}
          /\ tasks[t].published # <<>>

\* C34: the loss of the connection cancels no dispatch and leaves the tasks
\* and the buffer as they are; every dispatch, also one created before the
\* connection was lost, ends in an outcome: its Position committed and
\* published, or its frame dropped; and once the connection is lost no task
\* is created and the rest of the buffer, shorter than a frame, stays where
\* it is.
PendingDispatchesFinish ==
    /\ [](/\ Len(buffer) < MSG_LENGTH
          /\ \A t \in DOMAIN tasks : tasks[t].outcome # "Cancelled")
    /\ [][/\ (transport = "open" /\ transport' = "closed") => tasks' = tasks
          /\ transport = "closed" =>
                /\ Len(tasks') = Len(tasks)
                /\ buffer' = buffer]_vars
    /\ \A t \in 1..MaxFrames : (t \in DOMAIN tasks) ~> RanToOutcome(t)

\* the connection is lost while the dispatch of its first frame awaits the
\* commit and a part of a frame is in the buffer
LostWithDispatchPending ==
    /\ transport = "closed"
    /\ Len(tasks) >= 1
    /\ tasks[1].pc = "commit"
    /\ buffer # <<>>

(***************************************************************************)
(* The end of the process.                                                 *)
(***************************************************************************)
\* C32: after the shutdown signal every frame dispatch that was in flight
\* runs to its outcome, Position committed or frame dropped, and none is
\* cancelled part-way: a dispatch that has ended has ended by itself, and
\* its Position, once added to the session, is committed.
InFlightDispatchesDrain ==
    \A t \in DOMAIN tasks :
        tasks[t].pc = "done" =>
            /\ tasks[t].outcome # "Cancelled"
            /\ (tasks[t].position # Null /\ tasks[t].outcome # "CommitFailed")
                  => RowsOf(t) # {}

=============================================================================
